---- MODULE Spec2Model ----
(***************************************************************************)
(* Verification model of the CSV cleaning and inventory scripts.           *)
(*                                                                         *)
(*   SpecInfer  infer_bigquery_type     (generate_cleaned_datasets.py)     *)
(*   SpecClean  column-name cleaning of clean_csv_for_bigquery             *)
(*   SpecScan   structural_scan         (data_inventory_master_pass1.py)   *)
(*                                                                         *)
(* Text is modelled by TLA+ strings read character by character, so that   *)
(* the regular expressions and the numeric parser of the code are computed *)
(* on the characters and not assumed.                                      *)
(***************************************************************************)
EXTENDS Integers, Sequences, FiniteSets, TLC

VARIABLES
    \* infer_bigquery_type(series, column_name)
    column_name, series, field_info,
    \* clean_csv_for_bigquery, step 1
    columns, cleaned_columns, pass,
    \* structural_scan(file_path, expected_ncols, sample_offenders)
    file_rows, sample_offenders, expected_ncols, counts, offenders, header,
    total_lines, encodings_left, successful_encoding, scan_pc, scan_result,
    \* analyze_dataset(file_path, year, sample_uniques_cap, topk_cats)
    file_path, year, sample_uniques_cap, topk_cats, struct, load_encodings,
    encoding_used, df, cols_profile, report, analyze_pc,
    \* generate_comprehensive_analysis.py, main()
    dictionaries, columns_by_year, intersections, categories, written, main_pc,
    \* run(csv_2023, csv_2024, csv_2025, outdir) of the inventory pipeline
    inputs, results, run_written, status_by_year, verdicts, run_pc,
    \* clean_csv_for_bigquery: one column of the dataframe and its cells
    salary_col, salary_input, salary_values, salary_written, salary_pc,
    \* generate_bigquery_schema and load_original_columns
    schema_raw, column_mapping, schema_df, schema_fields, legacy_schema,
    original_columns, schema_pc,
    \* run_holistic_corruption_check: one column of the schema
    check_type, check_series, issues, check_pc

inferVars == <<column_name, series, field_info>>
cleanVars == <<columns, cleaned_columns, pass>>
scanVars  == <<file_rows, sample_offenders, expected_ncols, counts, offenders,
               header, total_lines, encodings_left, successful_encoding, scan_pc,
               scan_result>>
analyzeVars == <<file_path, year, sample_uniques_cap, topk_cats, struct,
                 load_encodings, encoding_used, df, cols_profile, report, analyze_pc>>
comprehensiveVars == <<dictionaries, columns_by_year, intersections, categories, written,
                       main_pc>>
runVars == <<inputs, results, run_written, status_by_year, verdicts, run_pc>>
salaryVars == <<salary_col, salary_input, salary_values, salary_written, salary_pc>>
schemaVars == <<schema_raw, column_mapping, schema_df, schema_fields, legacy_schema,
                original_columns, schema_pc>>
corruptionVars == <<check_type, check_series, issues, check_pc>>
vars == <<inferVars, cleanVars, scanVars, analyzeVars, comprehensiveVars, runVars, salaryVars,
          schemaVars, corruptionVars>>

\* What each part of the program leaves alone.
notInferVars   == <<cleanVars, scanVars, analyzeVars, comprehensiveVars, runVars, salaryVars,
                   schemaVars, corruptionVars>>
notCleanVars   == <<inferVars, scanVars, analyzeVars, comprehensiveVars, runVars, salaryVars,
                   schemaVars, corruptionVars>>
notScanVars    == <<inferVars, cleanVars, analyzeVars, comprehensiveVars, runVars, salaryVars,
                   schemaVars, corruptionVars>>
notAnalyzeVars == <<inferVars, cleanVars, scanVars, comprehensiveVars, runVars, salaryVars,
                   schemaVars, corruptionVars>>
notComprehensiveVars == <<inferVars, cleanVars, scanVars, analyzeVars, runVars, salaryVars,
                   schemaVars, corruptionVars>>
notRunVars     == <<inferVars, cleanVars, scanVars, analyzeVars, comprehensiveVars, salaryVars,
                   schemaVars, corruptionVars>>
notSalaryVars  == <<inferVars, cleanVars, scanVars, analyzeVars, comprehensiveVars, runVars,
                   schemaVars, corruptionVars>>
notSchemaVars  == <<inferVars, cleanVars, scanVars, analyzeVars, comprehensiveVars, runVars,
                   salaryVars, corruptionVars>>
notCorruptionVars == <<inferVars, cleanVars, scanVars, analyzeVars, comprehensiveVars, runVars,
                       salaryVars, schemaVars>>

(***************************************************************************)
(* Characters and strings                                                  *)
(***************************************************************************)
Ch(s, i) == SubSeq(s, i, i)

Min(a, b) == IF a <= b THEN a ELSE b

Digits == {"0", "1", "2", "3", "4", "5", "6", "7", "8", "9"}

LowerLetters == {"a", "b", "c", "d", "e", "f", "g", "h", "i", "j", "k", "l", "m",
                 "n", "o", "p", "q", "r", "s", "t", "u", "v", "w", "x", "y", "z"}

UpperLetters == {"A", "B", "C", "D", "E", "F", "G", "H", "I", "J", "K", "L", "M",
                 "N", "O", "P", "Q", "R", "S", "T", "U", "V", "W", "X", "Y", "Z"}

IsDigit(c) == c \in Digits

AllDigits(s, from, to) == \A i \in from..to : IsDigit(Ch(s, i))

StartsWith(s, p) == Len(s) >= Len(p) /\ SubSeq(s, 1, Len(p)) = p

\* str.lower() on one character, then on a string
LowerChar(c) ==
    CASE c = "A" -> "a" [] c = "B" -> "b" [] c = "C" -> "c" [] c = "D" -> "d"
      [] c = "E" -> "e" [] c = "F" -> "f" [] c = "G" -> "g" [] c = "H" -> "h"
      [] c = "I" -> "i" [] c = "J" -> "j" [] c = "K" -> "k" [] c = "L" -> "l"
      [] c = "M" -> "m" [] c = "N" -> "n" [] c = "O" -> "o" [] c = "P" -> "p"
      [] c = "Q" -> "q" [] c = "R" -> "r" [] c = "S" -> "s" [] c = "T" -> "t"
      [] c = "U" -> "u" [] c = "V" -> "v" [] c = "W" -> "w" [] c = "X" -> "x"
      [] c = "Y" -> "y" [] c = "Z" -> "z" [] OTHER -> c

\* Character-wise operations split the text in halves, which keeps the
\* evaluation depth logarithmic in the length of a name.
RECURSIVE Lower(_)
Lower(s) ==
    IF Len(s) = 0 THEN ""
    ELSE IF Len(s) = 1 THEN LowerChar(s)
    ELSE Lower(SubSeq(s, 1, Len(s) \div 2)) \o Lower(SubSeq(s, Len(s) \div 2 + 1, Len(s)))

(***************************************************************************)
(* infer_bigquery_type                                                     *)
(***************************************************************************)
\* a missing cell (NaN/None), removed by dropna()
Null == [isna |-> TRUE, str |-> ""]

\* a cell holding the text v (the file is loaded with dtype=str)
Cell(v) == [isna |-> FALSE, str |-> v]

\* bound: the number of cells of the column handed to the inferencer
MaxSeries == 3

\* head(1000)
SampleSize == 1000

ColumnNames == {"amount", "CompTotal", "ConvertedCompYearly", "JobSatPoints_1",
                "ResponseId"}

CellStrings == {"", "20", "10.5", "1", "0", "Yes", "no", "nan", "abc", "2024-01-05"}

CellValues == {Null} \cup {Cell(v) : v \in CellStrings}

RECURSIVE SeqsUpTo(_, _)
SeqsUpTo(S, n) ==
    IF n = 0 THEN {<<>>}
    ELSE LET shorter == SeqsUpTo(S, n - 1)
         IN  shorter \cup {Append(q, x) : q \in {r \in shorter : Len(r) = n - 1}, x \in S}

\* series.dropna().astype(str), then the values != ''
RECURSIVE NonNullValues(_)
NonNullValues(s) ==
    IF s = <<>> THEN <<>>
    ELSE IF Head(s).isna \/ Head(s).str = ""
         THEN NonNullValues(Tail(s))
         ELSE <<Head(s).str>> \o NonNullValues(Tail(s))

SampleValues(s) == SubSeq(NonNullValues(s), 1, Min(SampleSize, Len(NonNullValues(s))))

\* The text after an optional sign.
Unsigned(v) == IF Len(v) > 0 /\ Ch(v, 1) \in {"+", "-"} THEN SubSeq(v, 2, Len(v)) ELSE v

DotPositions(u) == {i \in 1..Len(u) : Ch(u, i) = "."}

\* pd.to_numeric on one string: "int" (digits), "float" (digits with one decimal
\* point), "nonfinite" (nan, inf, infinity in any case) or "error" (ValueError).
\* Exponent notation and surrounding blanks are not among the modelled cells.
ParseNumeric(v) ==
    LET u == Unsigned(v)
    IN  IF Len(u) > 0 /\ AllDigits(u, 1, Len(u)) THEN "int"
        ELSE IF /\ Cardinality(DotPositions(u)) = 1
                /\ Len(u) > 1
                /\ \A i \in 1..Len(u) : IsDigit(Ch(u, i)) \/ Ch(u, i) = "."
             THEN "float"
        ELSE IF Lower(u) \in {"nan", "inf", "infinity"} THEN "nonfinite"
        ELSE "error"

\* float.is_integer() of the parsed value
IsIntegral(v) ==
    LET u == Unsigned(v)
    IN  \/ ParseNumeric(v) = "int"
        \/ /\ ParseNumeric(v) = "float"
           /\ LET d == CHOOSE i \in DotPositions(u) : TRUE
              IN  \A i \in (d + 1)..Len(u) : Ch(u, i) = "0"

\* pd.to_numeric(sample_values, errors='raise') does not raise
AllParse(sample) == \A i \in 1..Len(sample) : ParseNumeric(sample[i]) # "error"

\* .astype(int) raises on a float column holding NaN or inf and on nothing else:
\* a finite float is truncated silently
AstypeIntRaises(sample) == \E i \in 1..Len(sample) : ParseNumeric(sample[i]) = "nonfinite"

BoolValues == {"true", "false", "yes", "no", "1", "0", "y", "n"}

UniqueLower(sample) == {Lower(sample[i]) : i \in 1..Len(sample)}

\* ^\d{4}-\d{2}-\d{2}$
MatchYMD(v) ==
    /\ Len(v) = 10
    /\ AllDigits(v, 1, 4) /\ Ch(v, 5) = "-" /\ AllDigits(v, 6, 7)
    /\ Ch(v, 8) = "-" /\ AllDigits(v, 9, 10)

\* ^\d{1,2}[/-]\d{1,2}[/-]\d{2,4}$
MatchMDY(v) ==
    \E a \in 1..2, b \in 1..2, c \in 2..4 :
        /\ Len(v) = a + b + c + 2
        /\ AllDigits(v, 1, a) /\ Ch(v, a + 1) \in {"/", "-"}
        /\ AllDigits(v, a + 2, a + b + 1) /\ Ch(v, a + b + 2) \in {"/", "-"}
        /\ AllDigits(v, a + b + 3, a + b + c + 2)

\* ^\d{4}-\d{2}-\d{2}T\d{2}:\d{2}:\d{2}   (a prefix match)
MatchISO(v) ==
    /\ Len(v) >= 19
    /\ MatchYMD(SubSeq(v, 1, 10)) /\ Ch(v, 11) = "T"
    /\ AllDigits(v, 12, 13) /\ Ch(v, 14) = ":" /\ AllDigits(v, 15, 16)
    /\ Ch(v, 17) = ":" /\ AllDigits(v, 18, 19)

MatchCount(sample, pattern) ==
    Cardinality({i \in 1..Len(sample) :
        CASE pattern = 1 -> MatchYMD(sample[i])
          [] pattern = 2 -> MatchMDY(sample[i])
          [] OTHER       -> MatchISO(sample[i])})

\* The values matched by any of the patterns counted together.
DateLike_AnyPattern(sample) ==
    10 * Cardinality({i \in 1..Len(sample) :
                         MatchYMD(sample[i]) \/ MatchMDY(sample[i]) \/ MatchISO(sample[i])})
        > 7 * Len(sample)

\* sample_values.str.match(pattern).mean() > 0.7 for one of the three patterns
DateLike(sample) ==
    \E pattern \in 1..3 : 10 * MatchCount(sample, pattern) > 7 * Len(sample)

\* Every field is required.
FieldInfo_Required(name, type, description) ==
    [name |-> name, type |-> type, mode |-> "REQUIRED", description |-> description]

FieldInfo(name, type, description) ==
    [name |-> name, type |-> type, mode |-> "NULLABLE", description |-> description]

\* The boolean check placed before the numeric checks.
GenericType_BoolFirst(sample, name) ==
    IF UniqueLower(sample) \subseteq BoolValues /\ Cardinality(UniqueLower(sample)) <= 4
    THEN FieldInfo(name, "BOOLEAN", "Boolean column: " \o name)
    ELSE IF AllParse(sample) /\ ~AstypeIntRaises(sample)
    THEN FieldInfo(name, "INTEGER", "Integer column: " \o name)
    ELSE IF AllParse(sample) /\ ~(\A i \in 1..Len(sample) : IsIntegral(sample[i]))
    THEN FieldInfo(name, "FLOAT", "Float column: " \o name)
    ELSE IF DateLike(sample)
    THEN FieldInfo(name, "TIMESTAMP", "Timestamp column: " \o name)
    ELSE FieldInfo(name, "STRING", "String column: " \o name)

\* The float check placed before the integer check, without its is_integer guard.
GenericType_FloatFirst(sample, name) ==
    IF AllParse(sample)
    THEN FieldInfo(name, "FLOAT", "Float column: " \o name)
    ELSE IF UniqueLower(sample) \subseteq BoolValues /\ Cardinality(UniqueLower(sample)) <= 4
    THEN FieldInfo(name, "BOOLEAN", "Boolean column: " \o name)
    ELSE IF DateLike(sample)
    THEN FieldInfo(name, "TIMESTAMP", "Timestamp column: " \o name)
    ELSE FieldInfo(name, "STRING", "String column: " \o name)

\* Steps 1-5 of the inference, on a non-empty sample of a column without override.
GenericType(sample, name) ==
    IF AllParse(sample) /\ ~AstypeIntRaises(sample)
    THEN FieldInfo(name, "INTEGER", "Integer column: " \o name)
    ELSE IF AllParse(sample) /\ ~(\A i \in 1..Len(sample) : IsIntegral(sample[i]))
    THEN FieldInfo(name, "FLOAT", "Float column: " \o name)
    ELSE IF UniqueLower(sample) \subseteq BoolValues /\ Cardinality(UniqueLower(sample)) <= 4
    THEN FieldInfo(name, "BOOLEAN", "Boolean column: " \o name)
    ELSE IF DateLike(sample)
    THEN FieldInfo(name, "TIMESTAMP", "Timestamp column: " \o name)
    ELSE FieldInfo(name, "STRING", "String column: " \o name)

infer_bigquery_type(s, name) ==
    LET sample == SampleValues(s)
    IN  IF Len(NonNullValues(s)) = 0
        THEN FieldInfo(name, "STRING", "Column " \o name \o " (all null values)")
        ELSE IF name \in {"CompTotal", "ConvertedCompYearly"}
        THEN FieldInfo(name, "FLOAT",
                       "Salary field: " \o name \o " (cleaned, outliers >1e9 removed)")
        ELSE IF StartsWith(name, "JobSatPoints_")
        THEN FieldInfo(name, "FLOAT",
                       "Job satisfaction points: " \o name \o " (decimal values)")
        ELSE IF name = "ResponseId"
        THEN FieldInfo(name, "INTEGER", "Response ID: " \o name)
        ELSE GenericType(sample, name)

NoResult == [none |-> TRUE]

IdleInfer == column_name = "" /\ series = <<>> /\ field_info = NoResult
IdleClean == columns = <<>> /\ cleaned_columns = <<>> /\ pass = 0
IdleScan ==
    /\ file_rows = <<>> /\ sample_offenders = 0 /\ expected_ncols = {}
    /\ counts = <<>> /\ offenders = <<>> /\ header = {} /\ total_lines = 0
    /\ encodings_left = <<>> /\ successful_encoding = {}
    /\ scan_pc = "idle" /\ scan_result = NoResult
IdleAnalyze ==
    /\ file_path = "" /\ year = 0 /\ sample_uniques_cap = 0 /\ topk_cats = 0
    /\ struct = NoResult /\ load_encodings = <<>> /\ encoding_used = ""
    /\ df = <<>> /\ cols_profile = <<>> /\ report = NoResult /\ analyze_pc = "idle"
IdleComprehensive ==
    /\ dictionaries = <<>> /\ columns_by_year = <<>> /\ intersections = NoResult
    /\ categories = NoResult /\ written = {} /\ main_pc = "idle"
IdleRun ==
    /\ inputs = <<>> /\ results = <<>> /\ run_written = {} /\ status_by_year = <<>>
    /\ verdicts = <<>> /\ run_pc = "idle"
IdleSalary ==
    /\ salary_col = "" /\ salary_input = <<>> /\ salary_values = <<>>
    /\ salary_written = <<>> /\ salary_pc = "idle"
IdleSchema ==
    /\ schema_raw = <<>> /\ column_mapping = <<>> /\ schema_df = <<>>
    /\ schema_fields = NoResult /\ legacy_schema = NoResult
    /\ original_columns = NoResult /\ schema_pc = "idle"
IdleCorruption ==
    /\ check_type = "" /\ check_series = <<>> /\ issues = {} /\ check_pc = "idle"

InitInfer ==
    /\ column_name \in ColumnNames
    /\ series \in SeqsUpTo(CellValues, MaxSeries)
    /\ field_info = NoResult
    /\ IdleClean /\ IdleScan /\ IdleAnalyze /\ IdleComprehensive /\ IdleRun /\ IdleSalary
    /\ IdleSchema /\ IdleCorruption

InferType ==
    /\ field_info = NoResult
    /\ field_info' = infer_bigquery_type(series, column_name)
    /\ UNCHANGED <<column_name, series, notInferVars>>

NextInfer == InferType

SpecInfer == InitInfer /\ [][NextInfer]_vars

(***************************************************************************)
(* Properties of infer_bigquery_type                                       *)
(***************************************************************************)
Inferred == field_info # NoResult

Sample == SampleValues(series)

SalaryFields == {"CompTotal", "ConvertedCompYearly"}

HasNameOverride(name) ==
    name \in SalaryFields \/ StartsWith(name, "JobSatPoints_") \/ name = "ResponseId"

AllIntegerStrings(sample) == \A i \in 1..Len(sample) : ParseNumeric(sample[i]) = "int"

\* C1: a column without name override whose non-empty sample values all parse
\* as numbers, at least one of them not integral, is typed FLOAT.
C1_FloatWhenNotAllIntegral ==
    (/\ Inferred
     /\ ~HasNameOverride(column_name)
     /\ Len(Sample) > 0
     /\ AllParse(Sample)
     /\ \E i \in 1..Len(Sample) : ~IsIntegral(Sample[i]))
    => field_info.type = "FLOAT"

\* C2: CompTotal and ConvertedCompYearly are typed FLOAT whatever the column
\* holds, an all-null or all-empty column included.
C2_SalaryAlwaysFloat ==
    (Inferred /\ column_name \in SalaryFields) => field_info.type = "FLOAT"

\* C3 as stated: a column that is not one of the two salary fields and whose
\* sampled values are all integer strings is typed INTEGER.
C3_IntegerUnlessSalary ==
    (/\ Inferred
     /\ column_name \notin SalaryFields
     /\ Len(Sample) > 0
     /\ AllIntegerStrings(Sample))
    => field_info.type = "INTEGER"

\* C3 as amended: a column with at least one sampled value, all of them integer
\* strings, whose name is neither a salary field nor starts with JobSatPoints_
\* is typed INTEGER, never FLOAT.
C3_IntegerUnlessFloatOverride ==
    (/\ Inferred
     /\ column_name \notin SalaryFields
     /\ ~StartsWith(column_name, "JobSatPoints_")
     /\ Len(Sample) > 0
     /\ AllIntegerStrings(Sample))
    => field_info.type = "INTEGER"

\* an all-integer column without override, typed by the generic integer check
C3_Witness ==
    /\ Inferred
    /\ column_name = "amount"
    /\ series = <<Cell("20"), Null, Cell("1")>>
    /\ field_info.type = "INTEGER"

(***************************************************************************)
(* clean_csv_for_bigquery, step 1: column names                            *)
(***************************************************************************)
\* clean_col[:128]
MaxNameLength == 128

\* bound: the number of columns of the dataframe
MaxCols == 3

RECURSIVE Rep(_, _)
Rep(c, n) ==
    IF n = 0 THEN ""
    ELSE IF n = 1 THEN c
    ELSE Rep(c, n \div 2) \o Rep(c, n - n \div 2)

\* Header names as pandas delivers them: non-empty and pairwise distinct.
RawNames ==
    {"a", "a b", "a_b", "a__b", "a_b_1", "_a", "a-", "1a", "-1a", "col_1a", "-", "%",
     Rep("a", MaxNameLength),
     Rep("a", MaxNameLength) \o "b",
     Rep("a", MaxNameLength - 1) \o "_b"}

IsWordChar(c) == c \in LowerLetters \cup UpperLetters \cup Digits \cup {"_"}

\* re.sub(r'[^a-zA-Z0-9_]', '_', col)
RECURSIVE ReplaceNonWord(_)
ReplaceNonWord(s) ==
    IF Len(s) = 0 THEN ""
    ELSE IF Len(s) = 1 THEN (IF IsWordChar(s) THEN s ELSE "_")
    ELSE ReplaceNonWord(SubSeq(s, 1, Len(s) \div 2))
         \o ReplaceNonWord(SubSeq(s, Len(s) \div 2 + 1, Len(s)))

\* A prefix put before every digit: the pattern without its ^ anchor.
RECURSIVE PrefixLeadingDigit_Unanchored(_)
PrefixLeadingDigit_Unanchored(s) ==
    IF Len(s) = 0 THEN ""
    ELSE IF Len(s) = 1 THEN (IF IsDigit(s) THEN "col_" \o s ELSE s)
    ELSE PrefixLeadingDigit_Unanchored(SubSeq(s, 1, Len(s) \div 2))
         \o PrefixLeadingDigit_Unanchored(SubSeq(s, Len(s) \div 2 + 1, Len(s)))

\* re.sub(r'^([0-9])', r'col_\1', clean_col)
PrefixLeadingDigit(s) == IF Len(s) > 0 /\ IsDigit(Ch(s, 1)) THEN "col_" \o s ELSE s

\* re.sub(r'_+', '_', clean_col)
\* of every run of underscores the first one is kept
RECURSIVE CollapseRange(_, _, _)
CollapseRange(s, lo, hi) ==
    IF lo > hi THEN ""
    ELSE IF lo = hi
         THEN (IF lo > 1 /\ Ch(s, lo) = "_" /\ Ch(s, lo - 1) = "_" THEN "" ELSE Ch(s, lo))
    ELSE CollapseRange(s, lo, (lo + hi) \div 2) \o CollapseRange(s, (lo + hi) \div 2 + 1, hi)

CollapseUnderscores(s) == CollapseRange(s, 1, Len(s))

\* clean_col.strip('_')
StripUnderscores(s) ==
    LET kept == {i \in 1..Len(s) : Ch(s, i) # "_"}
    IN  IF kept = {} THEN ""
        ELSE SubSeq(s, CHOOSE i \in kept : \A j \in kept : i <= j,
                       CHOOSE i \in kept : \A j \in kept : i >= j)

\* clean_col[:128]
Truncate(s) == SubSeq(s, 1, Min(MaxNameLength, Len(s)))

\* lines 64-68: the cleaned name before duplicate handling
CleanName(col) ==
    Truncate(StripUnderscores(CollapseUnderscores(PrefixLeadingDigit(ReplaceNonWord(col)))))

DigitString == <<"0", "1", "2", "3", "4", "5", "6", "7", "8", "9">>

\* the counter as it is formatted into the f-string
RECURSIVE Itoa(_)
Itoa(n) == IF n < 10 THEN DigitString[n + 1] ELSE Itoa(n \div 10) \o DigitString[(n % 10) + 1]

\* cleaned_columns.values()
Values(d) == {d[k].clean : k \in 1..Len(d)}

\* An if in place of the while: the suffixed name is not looked up again.
Disambiguate_Once(original_clean, clean_col, counter, taken) ==
    IF clean_col \in taken THEN original_clean \o "_" \o Itoa(counter) ELSE clean_col

\* lines 71-75: while clean_col in cleaned_columns.values(): suffix the counter
RECURSIVE Disambiguate(_, _, _, _)
Disambiguate(original_clean, clean_col, counter, taken) ==
    IF clean_col \in taken
    THEN Disambiguate(original_clean, original_clean \o "_" \o Itoa(counter), counter + 1, taken)
    ELSE clean_col

\* cleaned_columns[col] = clean_col on an insertion-ordered dict
DictSet(d, col, clean_col) ==
    IF \E k \in 1..Len(d) : d[k].col = col
    THEN [k \in 1..Len(d) |-> IF d[k].col = col THEN [col |-> col, clean |-> clean_col] ELSE d[k]]
    ELSE Append(d, [col |-> col, clean |-> clean_col])

DistinctSeqsUpTo(S, n) ==
    {q \in SeqsUpTo(S, n) : \A i, j \in 1..Len(q) : i # j => q[i] # q[j]}

InitClean ==
    /\ columns \in DistinctSeqsUpTo(RawNames, MaxCols)
    /\ cleaned_columns = <<>>
    /\ pass = 1
    /\ IdleInfer /\ IdleScan /\ IdleAnalyze /\ IdleComprehensive /\ IdleRun /\ IdleSalary
    /\ IdleSchema /\ IdleCorruption

\* One iteration of `for col in df.columns` (lines 59-77); the loop index is the
\* number of columns already mapped.
CleanColumn ==
    /\ pass \in {1, 2}
    /\ Len(cleaned_columns) < Len(columns)
    /\ LET col == columns[Len(cleaned_columns) + 1]
           original_clean == CleanName(col)
           clean_col == Disambiguate(original_clean, original_clean, 1,
                                     Values(cleaned_columns))
       IN  cleaned_columns' = DictSet(cleaned_columns, col, clean_col)
    /\ UNCHANGED <<columns, pass, notCleanVars>>

\* df.rename(columns=cleaned_columns) and the header written to the cleaned CSV
RenamedColumns == [k \in 1..Len(columns) |-> cleaned_columns[k].clean]

\* The cleaning run again over the header it produced (a header pandas reads
\* back as it is: no empty name). The three metadata columns of step 5 are
\* left out: their names are fixed and already clean.
RerunCleaning ==
    /\ pass = 1
    /\ Len(cleaned_columns) = Len(columns)
    /\ \A k \in 1..Len(columns) : cleaned_columns[k].clean # ""
    /\ columns' = RenamedColumns
    /\ cleaned_columns' = <<>>
    /\ pass' = 2
    /\ UNCHANGED notCleanVars

NextClean == CleanColumn \/ RerunCleaning

SpecClean == InitClean /\ [][NextClean]_vars

(***************************************************************************)
(* Properties of the name cleaning                                         *)
(***************************************************************************)
IsLetter(c) == c \in LowerLetters \cup UpperLetters

IsIdentifier(s) ==
    /\ Len(s) > 0
    /\ \A i \in 1..Len(s) : IsWordChar(Ch(s, i))
    /\ ~IsDigit(Ch(s, 1))

\* C4: every cleaned column name is a valid identifier: non-empty, letters,
\* digits and underscores only, not starting with a digit.
C4_CleanedNamesAreIdentifiers ==
    \A k \in 1..Len(cleaned_columns) : IsIdentifier(cleaned_columns[k].clean)

\* C5: every cleaned column name has at most 128 characters, names that
\* received a numeric suffix included.
C5_CleanedNamesWithinLimit ==
    \A k \in 1..Len(cleaned_columns) : Len(cleaned_columns[k].clean) <= MaxNameLength

\* C6: pairwise distinct raw names are assigned pairwise distinct cleaned names.
C6_CleanedNamesDistinct ==
    \A j, k \in 1..Len(cleaned_columns) :
        j # k => cleaned_columns[j].clean # cleaned_columns[k].clean

\* a name whose first suffixed form was taken too and that received the next one
C6_Witness ==
    \E k \in 1..Len(cleaned_columns) :
        /\ CleanName(cleaned_columns[k].col) \in Values(SubSeq(cleaned_columns, 1, k - 1))
        /\ CleanName(cleaned_columns[k].col) \o "_1" \in Values(SubSeq(cleaned_columns, 1, k - 1))
        /\ cleaned_columns[k].clean = CleanName(cleaned_columns[k].col) \o "_2"

IsCanonical(s) ==
    /\ Len(s) > 0 /\ Len(s) <= MaxNameLength
    /\ \A i \in 1..Len(s) : IsWordChar(Ch(s, i))
    /\ IsLetter(Ch(s, 1))
    /\ Ch(s, Len(s)) # "_"
    /\ \A i \in 1..(Len(s) - 1) : ~(Ch(s, i) = "_" /\ Ch(s, i + 1) = "_")

PreviewLength == 5

\* bound: rows of the file, the header row included
MaxRows == 4

\* bound: the largest sample_offenders argument tried (the default is 5)
MaxSampleOffenders == 2

\* the fields of a row of n fields, told apart by their position
Row(n) == SubSeq(<<"f1", "f2", "f3", "f4", "f5", "f6", "f7">>, 1, n)

\* field counts of the rows csv.reader yields: a blank line is a row of no
\* field, and one row is longer than the preview
FieldCounts == {0, 1, 2, 3, PreviewLength + 1}

Rows == {Row(n) : n \in FieldCounts}

\* An optional value is the empty set (None) or the set of its value.
None == {}

Some(x) == {x}

\* `if expected_ncols`: neither None nor 0
Truthy(opt) == opt # None /\ opt # Some(0)

\* counts[n] = 1: the bucket overwritten instead of incremented
CounterAdd_Overwrite(c, n) == (n :> 1) @@ c

\* counts[n] += 1 on a collections.Counter
CounterAdd(c, n) ==
    IF n \in DOMAIN c THEN [c EXCEPT ![n] = @ + 1] ELSE (n :> 1) @@ c

\* only the short rows kept: k < expected_ncols for k != expected_ncols
AnomalousFieldCounts_Short(c, expected) ==
    [k \in {j \in DOMAIN c : \A e \in expected : j < e} |-> c[k]]

\* {k: v for k, v in counts.items() if k != expected_ncols}
AnomalousFieldCounts(c, expected) ==
    [k \in {j \in DOMAIN c : Some(j) # expected} |-> c[k]]

Offender(i, row) ==
    [line_number |-> i + 1, field_count |-> Len(row),
     preview |-> SubSeq(row, 1, Min(PreviewLength, Len(row)))]

\* encodings_to_try (line 45) and the fallback of line 59.
Encodings == <<"utf-8-sig", "utf-8", "latin-1", "cp1252">>

EncodingNames == {Encodings[k] : k \in DOMAIN Encodings}

FallbackEncoding_Unknown == "unknown"

FallbackEncoding == "utf-8"

\* first_line.strip() of line 54: the first line of the file holds something
\* other than white space.  A file without rows, or one that starts with a
\* blank line, has none; a first line made of blanks only is not modelled.
FirstLineNonBlank(rows) == Len(rows) >= 1 /\ rows[1] # <<>>

\* The statements an exception raised at position pc is caught from: the
\* probe's own handler (line 57) inside the loop, the handler of line 87 for
\* everything else in the try block of lines 43-86.
CaughtAt_LoopOnly(pc) == pc \in {"probing", "scanning"}

CaughtAt(pc) == pc \in {"probing", "opening", "scanning"}

InitScan ==
    /\ file_rows \in SeqsUpTo(Rows, MaxRows)
    /\ sample_offenders \in 0..MaxSampleOffenders
    /\ expected_ncols \in {None, Some(2)}
    /\ counts = <<>>
    /\ offenders = <<>>
    /\ header = None
    /\ total_lines = 0
    /\ encodings_left = Encodings
    /\ successful_encoding = None
    /\ scan_pc = "probing"
    /\ scan_result = NoResult
    /\ IdleInfer /\ IdleClean /\ IdleAnalyze /\ IdleComprehensive /\ IdleRun /\ IdleSalary
    /\ IdleSchema /\ IdleCorruption

\* One iteration of `for encoding in encodings_to_try` (lines 48-57): open()
\* or readline() raises and the loop continues, or the first line is read
\* and the loop breaks when it is not blank.
ProbeEncoding ==
    /\ scan_pc = "probing"
    /\ encodings_left # <<>>
    /\ \E raises \in BOOLEAN :
          IF ~raises /\ FirstLineNonBlank(file_rows)
          THEN /\ successful_encoding' = Some(Head(encodings_left))
               /\ scan_pc' = "opening"
               /\ UNCHANGED encodings_left
          ELSE /\ encodings_left' = Tail(encodings_left)
               /\ UNCHANGED <<successful_encoding, scan_pc>>
    /\ UNCHANGED <<file_rows, sample_offenders, expected_ncols, counts, offenders, header,
                   total_lines, scan_result, notScanVars>>

\* The loop ends without a break: lines 59-60.
ProbeFallback ==
    /\ scan_pc = "probing"
    /\ encodings_left = <<>>
    /\ successful_encoding' =
           IF successful_encoding = None THEN Some(FallbackEncoding)
           ELSE successful_encoding
    /\ scan_pc' = "opening"
    /\ UNCHANGED <<file_rows, sample_offenders, expected_ncols, counts, offenders, header,
                   total_lines, encodings_left, scan_result, notScanVars>>

\* open() of line 62 succeeds.
OpenFile ==
    /\ scan_pc = "opening"
    /\ scan_pc' = "scanning"
    /\ UNCHANGED <<file_rows, sample_offenders, expected_ncols, counts, offenders, header,
                   total_lines, encodings_left, successful_encoding, scan_result,
                   notScanVars>>

\* One iteration of `for i, row in enumerate(reader)` (lines 64-77); i is the
\* number of rows read before this one.  Stripping a byte-order mark from
\* header[0] changes the text of that field and not the number of fields; the
\* header's text is not part of the result.
ReadRow ==
    /\ scan_pc = "scanning"
    /\ total_lines < Len(file_rows)
    /\ LET i == total_lines
           row == file_rows[i + 1]
           n == Len(row)
       IN  /\ total_lines' = total_lines + 1
           /\ IF i = 0
              THEN /\ header' = Some(row)
                   /\ expected_ncols' =
                          IF expected_ncols = None THEN Some(Len(row)) ELSE expected_ncols
                   /\ UNCHANGED <<counts, offenders>>
              ELSE /\ counts' = CounterAdd(counts, n)
                   /\ offenders' =
                          IF /\ Truthy(expected_ncols)
                             /\ Some(n) # expected_ncols
                             /\ Len(offenders) < sample_offenders
                          THEN Append(offenders, Offender(i, row))
                          ELSE offenders
                   /\ UNCHANGED <<header, expected_ncols>>
    /\ UNCHANGED <<file_rows, sample_offenders, encodings_left, successful_encoding,
                   scan_pc, scan_result, notScanVars>>

\* The reader is exhausted: lines 78-86. A result without 'error' key has
\* error = None.
ReturnResult ==
    /\ scan_pc = "scanning"
    /\ total_lines = Len(file_rows)
    /\ scan_result' = [error |-> None,
                       expected_ncols |-> expected_ncols,
                       field_count_histogram |-> counts,
                       anomalous_field_counts |-> AnomalousFieldCounts(counts, expected_ncols),
                       offending_examples |-> offenders,
                       total_lines_including_header |-> total_lines,
                       encoding_used |-> CHOOSE e \in successful_encoding : TRUE]
    /\ scan_pc' = "returned"
    /\ UNCHANGED <<file_rows, sample_offenders, expected_ncols, counts, offenders, header,
                   total_lines, encodings_left, successful_encoding, notScanVars>>

\* open() of line 62 or the reader raises, before the first row or at any
\* later one.  The handler of lines 87-97 returns the error result; an
\* exception no handler covers leaves structural_scan.
ScanError ==
    /\ scan_pc \in {"opening", "scanning"}
    /\ IF CaughtAt(scan_pc)
       THEN /\ scan_result' = [error |-> Some("error"),
                               expected_ncols |-> expected_ncols,
                               field_count_histogram |-> <<>>,
                               anomalous_field_counts |-> <<>>,
                               offending_examples |-> <<>>,
                               total_lines_including_header |-> total_lines,
                               encoding_used |-> "unknown"]
            /\ scan_pc' = "failed"
       ELSE /\ scan_pc' = "raised"
            /\ UNCHANGED scan_result
    /\ UNCHANGED <<file_rows, sample_offenders, expected_ncols, counts, offenders, header,
                   total_lines, encodings_left, successful_encoding, notScanVars>>

NextScan ==
    ProbeEncoding \/ ProbeFallback \/ OpenFile \/ ReadRow \/ ReturnResult \/ ScanError

SpecScan == InitScan /\ [][NextScan]_vars

(***************************************************************************)
(* Properties of structural_scan                                           *)
(***************************************************************************)
\* the data rows of the file: the rows after the header
DataRowIndexes == 2..Len(file_rows)

DataRowCount == Cardinality(DataRowIndexes)

RowsWithCount(n) == Cardinality({i \in DataRowIndexes : Len(file_rows[i]) = n})

\* a file with a header whose data rows all have the header's field count,
\* scanned with that count as the expected one
WellFormed ==
    /\ Len(file_rows) >= 1
    /\ expected_ncols = Some(Len(file_rows[1]))
    /\ \A i \in DataRowIndexes : Len(file_rows[i]) = Len(file_rows[1])

\* C8 as stated: the scan of a well-formed CSV with N data rows returns a
\* histogram of exactly one bucket, the expected count with frequency N, no
\* anomalous field count and no offending example.
C8_WellFormedOneBucket ==
    (scan_pc = "returned" /\ WellFormed)
    => /\ DOMAIN scan_result.field_count_histogram = {Len(file_rows[1])}
       /\ scan_result.field_count_histogram[Len(file_rows[1])] = DataRowCount
       /\ scan_result.anomalous_field_counts = <<>>
       /\ scan_result.offending_examples = <<>>

\* C8 as amended: for N >= 1 the histogram has exactly the expected bucket,
\* with frequency N; for N = 0 it is empty; in both cases there is no
\* anomalous field count and no offending example.
C8_WellFormedAtMostOneBucket ==
    (scan_pc = "returned" /\ WellFormed)
    => /\ DataRowCount >= 1 =>
            /\ DOMAIN scan_result.field_count_histogram = {Len(file_rows[1])}
            /\ scan_result.field_count_histogram[Len(file_rows[1])] = DataRowCount
       /\ DataRowCount = 0 => scan_result.field_count_histogram = <<>>
       /\ scan_result.anomalous_field_counts = <<>>
       /\ scan_result.offending_examples = <<>>

\* a well-formed file of two columns and three data rows has been scanned
C8_Witness ==
    /\ scan_pc = "returned"
    /\ WellFormed
    /\ file_rows = <<Row(2), Row(2), Row(2), Row(2)>>
    /\ scan_result.field_count_histogram = (2 :> 3)

\* the records of the anomalous rows among the first t rows, in file order
RECURSIVE AnomalousRecords(_)
AnomalousRecords(t) ==
    IF t <= 1 THEN <<>>
    ELSE IF Some(Len(file_rows[t])) # expected_ncols
         THEN Append(AnomalousRecords(t - 1), Offender(t - 1, file_rows[t]))
         ELSE AnomalousRecords(t - 1)

FirstN(q, n) == SubSeq(q, 1, Min(n, Len(q)))

\* C9: at every moment of the scan, and in the result, offending_examples
\* holds the first min(sample_offenders, anomalous rows read) anomalous rows
\* in file order.
C9_OffendersAreFirstAnomalousRows ==
    /\ scan_pc = "scanning" =>
           offenders = FirstN(AnomalousRecords(total_lines), sample_offenders)
    /\ scan_pc = "returned" =>
           scan_result.offending_examples =
               FirstN(AnomalousRecords(Len(file_rows)), sample_offenders)

RECURSIVE SumCounts(_)
SumCounts(c) ==
    IF DOMAIN c = {} THEN 0
    ELSE LET k == CHOOSE j \in DOMAIN c : TRUE
         IN  c[k] + SumCounts([j \in DOMAIN c \ {k} |-> c[j]])

\* C10: in the result of a scan that completed without error the histogram's
\* frequencies sum to the number of rows after the header (the total line
\* count minus one when a header was read), and anomalous_field_counts is the
\* histogram without the expected-count bucket.
C10_HistogramSumAndAnomalies ==
    scan_pc = "returned" =>
        LET hist == scan_result.field_count_histogram
            anomalies == scan_result.anomalous_field_counts
        IN  /\ SumCounts(hist) = DataRowCount
            /\ header # None =>
                   SumCounts(hist) = scan_result.total_lines_including_header - 1
            /\ \A n \in DOMAIN hist : hist[n] = RowsWithCount(n)
            /\ DOMAIN anomalies = {n \in DOMAIN hist : Some(n) # scan_result.expected_ncols}
            /\ \A n \in DOMAIN anomalies : anomalies[n] = hist[n]

\* a completed scan with well-formed, short and long rows
C10_Witness ==
    /\ scan_pc = "returned"
    /\ file_rows = <<Row(2), Row(2), Row(1), Row(3)>>
    /\ scan_result.field_count_histogram = (1 :> 1) @@ (2 :> 1) @@ (3 :> 1)
    /\ scan_result.anomalous_field_counts = (1 :> 1) @@ (3 :> 1)

\* C11: structural_scan never raises: when the file cannot be opened or the
\* reader fails at any row, the scan ends in a result that has an error and
\* an empty histogram, no anomalous field counts and no offending examples,
\* whatever had been counted before the failure.
C11_ScanNeverRaises ==
    /\ scan_pc # "raised"
    /\ (scan_pc \in {"returned", "failed"}) <=> (scan_result # NoResult)
    /\ scan_pc = "failed" =>
           /\ scan_result.error # None
           /\ scan_result.field_count_histogram = <<>>
           /\ scan_result.anomalous_field_counts = <<>>
           /\ scan_result.offending_examples = <<>>

\* the reader fails after rows were counted and an offender was recorded
C11_Witness ==
    /\ scan_pc = "failed"
    /\ counts # <<>>
    /\ offenders # <<>>
    /\ scan_result.field_count_histogram = <<>>
    /\ scan_result.offending_examples = <<>>

\* C12 (as stated): in every result of structural_scan, the error result
\* included, encoding_used is one of the candidate encodings.
C12_EncodingUsedIsCandidate ==
    scan_result # NoResult => scan_result.encoding_used \in EncodingNames

\* C12 (amended): the probe always resolves to a candidate encoding, utf-8
\* when no candidate gave a non-blank first line, and a result without error
\* reports it in encoding_used; the error result reports 'unknown' instead.
C12_EncodingUsedUnlessError ==
    /\ scan_pc \in {"opening", "scanning", "returned", "failed"} =>
           /\ successful_encoding # None
           /\ successful_encoding \subseteq EncodingNames
           /\ ~FirstLineNonBlank(file_rows) => successful_encoding = Some("utf-8")
    /\ scan_pc = "returned" => Some(scan_result.encoding_used) = successful_encoding
    /\ scan_pc = "failed" => scan_result.encoding_used = "unknown"

\* a file that starts with a blank line is scanned as utf-8
C12_Witness ==
    /\ scan_pc = "returned"
    /\ Len(file_rows) >= 2
    /\ ~FirstLineNonBlank(file_rows)
    /\ scan_result.encoding_used = "utf-8"

(***************************************************************************)
(* analyze_dataset(file_path, year, sample_uniques_cap, topk_cats)         *)
(***************************************************************************)
\* bound: the number of rows of the loaded frame
MaxCells == 4

\* head(5) of the numeric examples
NumericExamples == 5

\* The cells a frame read with dtype=str holds: NaN for an empty field (and
\* for the other spellings pandas reads as missing), the field's text
\* otherwise.
FrameStrings == {"1", "1.0", "2024-01-05", "a;b"}

FrameCells == {Null} \cup {Cell(v) : v \in FrameStrings}

\* The frames read_csv can return are modelled with one column: the body of
\* the profiling loop reads no column but its own.
Frames == {<<[name |-> "ResponseId", values |-> c]>> : c \in SeqsUpTo(FrameCells, MaxCells)}

\* Results of structural_scan for the file: the error result, a clean scan
\* read as utf-8-sig and a scan read as latin-1 that met one long row.
ScanResults ==
    {[error |-> Some("error"), expected_ncols |-> None,
      field_count_histogram |-> <<>>, anomalous_field_counts |-> <<>>,
      offending_examples |-> <<>>, total_lines_including_header |-> 0,
      encoding_used |-> "unknown"],
     [error |-> None, expected_ncols |-> Some(1),
      field_count_histogram |-> (1 :> 2), anomalous_field_counts |-> <<>>,
      offending_examples |-> <<>>, total_lines_including_header |-> 3,
      encoding_used |-> "utf-8-sig"],
     [error |-> None, expected_ncols |-> Some(1),
      field_count_histogram |-> (1 :> 1) @@ (2 :> 1),
      anomalous_field_counts |-> (2 :> 1),
      offending_examples |-> <<Offender(2, Row(2))>>,
      total_lines_including_header |-> 3, encoding_used |-> "latin-1"]}

\* The defaults of the two limits, and small limits that a short column
\* reaches.
Limits == {<<10000, 10>>, <<2, 1>>}

\* fallback_encodings without the encoding already tried (lines 155-161)
RECURSIVE Without(_, _)
Without(q, x) ==
    IF q = <<>> THEN <<>>
    ELSE IF Head(q) = x THEN Without(Tail(q), x)
    ELSE <<Head(q)>> \o Without(Tail(q), x)

\* series.dropna().astype(str)
RECURSIVE DropNa(_)
DropNa(s) ==
    IF s = <<>> THEN <<>>
    ELSE IF Head(s).isna THEN DropNa(Tail(s))
    ELSE <<Head(s).str>> \o DropNa(Tail(s))

NullCount(s) == Cardinality({i \in 1..Len(s) : s[i].isna})

\* round((nulls / n) * 100, 2), in hundredths of a percent.  No column of
\* the model has a quotient that falls halfway between two hundredths.
NullPct(nulls, n) == IF n = 0 THEN 0 ELSE (2 * nulls * 10000 + n) \div (2 * n)

\* The number a numeric string denotes: its sign, its integer digits without
\* leading zeros and its fraction digits without trailing zeros.
NumValue(v) ==
    LET u == Unsigned(v)
        dots == DotPositions(u)
        d == IF dots = {} THEN Len(u) + 1 ELSE CHOOSE i \in dots : TRUE
        ip == SubSeq(u, 1, d - 1)
        fp == SubSeq(u, d + 1, Len(u))
        inz == {i \in 1..Len(ip) : Ch(ip, i) # "0"}
        fnz == {i \in 1..Len(fp) : Ch(fp, i) # "0"}
        int == IF inz = {} THEN ""
               ELSE SubSeq(ip, CHOOSE i \in inz : \A j \in inz : i <= j, Len(ip))
        frac == IF fnz = {} THEN ""
                ELSE SubSeq(fp, 1, CHOOSE i \in fnz : \A j \in fnz : j <= i)
    IN  [neg |-> Len(v) > 0 /\ Ch(v, 1) = "-" /\ (int # "" \/ frac # ""),
         int |-> int, frac |-> frac]

\* pd.to_numeric(s, errors='coerce') on one cell: None stands for NaN.
ToNumeric(cell) ==
    IF cell.isna THEN None
    ELSE LET kind == ParseNumeric(cell.str)
         IN  IF kind \in {"int", "float"} THEN Some(NumValue(cell.str))
             ELSE IF kind = "nonfinite" /\ Lower(Unsigned(cell.str)) # "nan"
             THEN Some([neg |-> Ch(cell.str, 1) = "-", int |-> "inf", frac |-> ""])
             ELSE None

\* as_num.dropna()
RECURSIVE NumericValues(_)
NumericValues(s) ==
    IF s = <<>> THEN <<>>
    ELSE IF ToNumeric(Head(s)) = None THEN NumericValues(Tail(s))
    ELSE <<CHOOSE x \in ToNumeric(Head(s)) : TRUE>> \o NumericValues(Tail(s))

\* re.match of ^(\d{4}-\d{2}-\d{2})|(\d{1,2}[/-]\d{1,2}[/-]\d{2,4})$ : the
\* first alternative is anchored at the start only, the second at the end.
DatePattern(v) ==
    \/ Len(v) >= 10 /\ MatchYMD(SubSeq(v, 1, 10))
    \/ MatchMDY(v)

\* looks_like_date (lines 99-105).  The 200 values sampled from a column of
\* at most 200 values are all of its values.
LooksLikeDate(s) ==
    LET vals == DropNa(s)
    IN  /\ vals # <<>>
        /\ 10 * Cardinality({i \in 1..Len(vals) : DatePattern(vals[i])}) > 7 * Len(vals)

Contains(v, sub) == \E i \in 1..(Len(v) - Len(sub) + 1) : SubSeq(v, i, i + Len(sub) - 1) = sub

\* is_multiselect (lines 107-111)
IsMultiselect(s) ==
    LET vals == DropNa(s)
    IN  /\ vals # <<>>
        /\ 10 * Cardinality({i \in 1..Len(vals) : Contains(vals[i], ";")}) > 2 * Len(vals)

\* The date test applied to every column, numeric or not.
LooksDate_Unguarded(is_numeric, s) == LooksLikeDate(s)

\* line 197
LooksDate(is_numeric, s) == IF is_numeric THEN FALSE ELSE LooksLikeDate(s)

Range(q) == {q[i] : i \in 1..Len(q)}

Occurrences(s, x) == Cardinality({i \in 1..Len(s) : s[i] = x})

\* The orders in which the elements of S can be listed.
RECURSIVE Perms(_)
Perms(S) ==
    IF S = {} THEN {<<>>}
    ELSE UNION {{<<x>> \o p : p \in Perms(S \ {x})} : x \in S}

\* s.value_counts(dropna=False): the distinct cells of the column, NaN
\* among them, by decreasing count.  The order of cells with equal counts is
\* left to the sort, so every such order is a possible result.
ValueCounts(s) ==
    {[k \in 1..Len(q) |-> [value |-> q[k], count |-> Occurrences(s, q[k])]] :
        q \in {p \in Perms(Range(s)) :
                 \A i, j \in 1..Len(p) : i < j => Occurrences(s, p[i]) >= Occurrences(s, p[j])}}

\* str(x) of an index value of the counts
Str(cell) == IF cell.isna THEN "nan" ELSE cell.str

\* The uncapped count.
UniqueApprox_Uncapped(n, cap) == n

\* int(min(n, sample_uniques_cap))
UniqueApprox(n, cap) == Min(n, cap)

\* Every index value instead of the head.
Examples_All(vc, topk) == [k \in 1..Len(vc) |-> Str(vc[k].value)]

\* [str(x) for x in vc.head(topk_cats).index.tolist()]
Examples(vc, topk) == [k \in 1..Min(topk, Len(vc)) |-> Str(vc[k].value)]

\* The body of the loop over df.columns (lines 188-218); vc is the result of
\* value_counts for the column.
ColumnProfile(i, col, cap, topk, vc) ==
    LET s == col.values
        n == Len(s)
        nulls == NullCount(s)
        nums == NumericValues(s)
        is_numeric == Len(nums) > 0
    IN  [index |-> i,
         name |-> col.name,
         null_count |-> nulls,
         null_pct |-> NullPct(nulls, n),
         is_numeric |-> is_numeric,
         looks_like_date |-> LooksDate(is_numeric, s),
         is_multiselect |-> IsMultiselect(s),
         unique_approx |-> IF is_numeric
                           THEN UniqueApprox(Cardinality(Range(nums)), cap)
                           ELSE UniqueApprox(Len(vc), cap),
         examples |-> IF is_numeric
                      THEN SubSeq(nums, 1, Min(NumericExamples, Len(nums)))
                      ELSE Examples(vc, topk)]

Max(a, b) == IF a >= b THEN a ELSE b

\* The failure report with the zeroed profile added.
FailureReport_Zeroed(y, f, st, enc) ==
    [year |-> y, file |-> f, file_size_mb |-> 0, loaded_ok |-> FALSE,
     error |-> "error", structural_scan |-> st, encoding_tried |-> enc,
     rows_loaded |-> 0, structural_corruption |-> FALSE, columns |-> <<>>]

\* lines 172-181.  The size of the file is not modelled.
FailureReport(y, f, st, enc) ==
    [year |-> y, file |-> f, file_size_mb |-> 0, loaded_ok |-> FALSE,
     error |-> "error", structural_scan |-> st, encoding_tried |-> enc]

\* lines 183-185 and 220-235.  The size of the file and the duration of
\* the run are not modelled.
Report(y, f, st, frame, profile, enc) ==
    LET rows == IF Len(frame) = 0 THEN 0 ELSE Len(frame[1].values)
        lines == st.total_lines_including_header - 1
    IN  [year |-> y, file |-> f, file_size_mb |-> 0, loaded_ok |-> TRUE,
         rows_loaded |-> rows,
         estimated_rows_in_file_ex_header |-> lines,
         estimated_rows_skipped |-> Max(0, lines - rows),
         structural_corruption |-> st.anomalous_field_counts # <<>>,
         structural_scan |-> st,
         n_columns_detected |-> Len(frame),
         columns |-> profile,
         encoding_used |-> enc,
         run_duration_seconds |-> 0]

InitAnalyze ==
    /\ file_path \in {"survey_results_public.csv"}
    /\ year \in {2024}
    /\ \E l \in Limits : sample_uniques_cap = l[1] /\ topk_cats = l[2]
    /\ struct \in ScanResults
    /\ encoding_used = struct.encoding_used
    /\ load_encodings = <<struct.encoding_used>> \o Without(Encodings, struct.encoding_used)
    /\ df = <<>>
    /\ cols_profile = <<>>
    /\ report = NoResult
    /\ analyze_pc = "loading"
    /\ IdleInfer /\ IdleClean /\ IdleScan /\ IdleComprehensive /\ IdleRun /\ IdleSalary
    /\ IdleSchema /\ IdleCorruption

\* One call of pd.read_csv (lines 128-134 for the encoding of the scan, lines
\* 146-152 for a fallback): it raises, as it always does for 'unknown', which
\* names no codec, or it returns a frame.
ReadCsv ==
    /\ analyze_pc = "loading"
    /\ load_encodings # <<>>
    /\ \E raises \in BOOLEAN :
          IF raises \/ Head(load_encodings) \notin EncodingNames
          THEN /\ load_encodings' = Tail(load_encodings)
               /\ UNCHANGED <<df, encoding_used, analyze_pc>>
          ELSE /\ df' \in Frames
               /\ encoding_used' = Head(load_encodings)
               /\ analyze_pc' = "profiling"
               /\ UNCHANGED load_encodings
    /\ UNCHANGED <<file_path, year, sample_uniques_cap, topk_cats, struct, cols_profile, report, notAnalyzeVars>>

\* Every encoding raised: lines 172-181.
LoadFailed ==
    /\ analyze_pc = "loading"
    /\ load_encodings = <<>>
    /\ report' = FailureReport(year, file_path, struct, encoding_used)
    /\ analyze_pc' = "failed"
    /\ UNCHANGED <<file_path, year, sample_uniques_cap, topk_cats, struct, load_encodings, encoding_used, df, cols_profile,
                   notAnalyzeVars>>

\* One iteration of `for i, col in enumerate(df.columns)` (lines 187-218).
ProfileColumn ==
    /\ analyze_pc = "profiling"
    /\ Len(cols_profile) < Len(df)
    /\ LET i == Len(cols_profile)
           col == df[i + 1]
       IN  \E vc \in ValueCounts(col.values) :
               cols_profile' = Append(cols_profile,
                   ColumnProfile(i, col, sample_uniques_cap, topk_cats, vc))
    /\ UNCHANGED <<file_path, year, sample_uniques_cap, topk_cats, struct, load_encodings, encoding_used, df, report,
                   analyze_pc, notAnalyzeVars>>

\* lines 220-235
ReturnReport ==
    /\ analyze_pc = "profiling"
    /\ Len(cols_profile) = Len(df)
    /\ report' = Report(year, file_path, struct, df, cols_profile, encoding_used)
    /\ analyze_pc' = "done"
    /\ UNCHANGED <<file_path, year, sample_uniques_cap, topk_cats, struct, load_encodings, encoding_used, df, cols_profile,
                   notAnalyzeVars>>

NextAnalyze == ReadCsv \/ LoadFailed \/ ProfileColumn \/ ReturnReport

SpecAnalyze == InitAnalyze /\ [][NextAnalyze]_vars

(***************************************************************************)
(* Properties of analyze_dataset                                           *)
(***************************************************************************)
\* The column a profile was computed from.
ProfiledColumn(k) == df[k].values

\* C13: in every column profile is_numeric and looks_like_date are never
\* both true: a column with a value that parses as a number is not tested
\* for dates, and any other column carries the result of the date test.
C13_NumericExcludesDate ==
    \A k \in 1..Len(cols_profile) :
        LET p == cols_profile[k]
            s == ProfiledColumn(k)
        IN  /\ ~(p.is_numeric /\ p.looks_like_date)
            /\ p.is_numeric <=> (\E i \in 1..Len(s) : ToNumeric(s[i]) # None)
            /\ ~p.is_numeric => (p.looks_like_date <=> LooksLikeDate(s))

\* a column of three dates and one number: the date test would accept it
C13_Witness ==
    /\ Len(cols_profile) = 1
    /\ ProfiledColumn(1) = <<Cell("2024-01-05"), Cell("2024-01-05"), Cell("1"),
                             Cell("2024-01-05")>>
    /\ LooksLikeDate(ProfiledColumn(1))
    /\ cols_profile[1].is_numeric
    /\ ~cols_profile[1].looks_like_date

\* The distinct non-null values of a column, as raw strings.
DistinctNonNull(s) == {s[i].str : i \in {j \in 1..Len(s) : ~s[j].isna}}

\* The distinct numbers among the values of a column that parse as numbers.
DistinctNumbers(s) ==
    {NumValue(s[i].str) : i \in {j \in 1..Len(s) : ToNumeric(s[j]) # None}}

HasNull(s) == \E i \in 1..Len(s) : s[i].isna

\* C14 (as stated): for every profiled column, numeric or categorical,
\* unique_approx is the smaller of the number of distinct non-null values and
\* sample_uniques_cap.
C14_UniqueIsDistinctNonNull ==
    \A k \in 1..Len(cols_profile) :
        cols_profile[k].unique_approx =
            Min(Cardinality(DistinctNonNull(ProfiledColumn(k))), sample_uniques_cap)

\* C14 (amended): unique_approx never exceeds sample_uniques_cap; for a
\* numeric column it is the smaller of the cap and the number of distinct
\* numbers among the values that parse, for any other column the smaller of
\* the cap and the number of distinct non-null values plus one when the
\* column has a missing value.
C14_UniqueCountsNumbersOrNullBucket ==
    \A k \in 1..Len(cols_profile) :
        LET p == cols_profile[k]
            s == ProfiledColumn(k)
        IN  /\ p.unique_approx <= sample_uniques_cap
            /\ p.is_numeric =>
                   p.unique_approx = Min(Cardinality(DistinctNumbers(s)), sample_uniques_cap)
            /\ ~p.is_numeric =>
                   p.unique_approx =
                       Min(Cardinality(DistinctNonNull(s)) + (IF HasNull(s) THEN 1 ELSE 0),
                           sample_uniques_cap)

\* a categorical column whose three distinct values, the missing one
\* included, exceed a cap of two
C14_Witness ==
    /\ Len(cols_profile) = 1
    /\ ProfiledColumn(1) = <<Cell("a;b"), Null, Cell("2024-01-05")>>
    /\ sample_uniques_cap = 2
    /\ cols_profile[1].unique_approx = 2

\* The number of cells of s that hold the string v.
Frequency(s, v) == Cardinality({i \in 1..Len(s) : ~s[i].isna /\ s[i].str = v})

\* The number of cells of s that example e was counted from.
ExampleCount(s, e) == IF e = "nan" THEN NullCount(s) ELSE Frequency(s, e)

\* C15 (as stated): for every non-numeric column examples lists at most
\* topk_cats raw string values, the most frequent ones, in non-increasing
\* order of frequency, and every example occurs in a non-null cell.
C15_ExamplesAreNonNullValues ==
    \A k \in 1..Len(cols_profile) :
        LET p == cols_profile[k]
            s == ProfiledColumn(k)
            ex == p.examples
        IN  ~p.is_numeric =>
                /\ Len(ex) <= topk_cats
                /\ \A i \in 1..Len(ex) : ex[i] \in DistinctNonNull(s)
                /\ \A i, j \in 1..Len(ex) : i < j => Frequency(s, ex[i]) >= Frequency(s, ex[j])
                /\ \A v \in DistinctNonNull(s) \ Range(ex) :
                       \A i \in 1..Len(ex) : Frequency(s, ex[i]) >= Frequency(s, v)

\* C15 (amended): for every non-numeric column examples lists the
\* min(topk_cats, number of distinct values) most frequent values of the
\* column, the missing value counted as a value and written 'nan', without
\* repetition and in non-increasing order of frequency; every example other
\* than 'nan' occurs in a non-null cell and 'nan' is listed only for a column
\* that has a missing value.
C15_ExamplesCountNullAsValue ==
    \A k \in 1..Len(cols_profile) :
        LET p == cols_profile[k]
            s == ProfiledColumn(k)
            ex == p.examples
            values == DistinctNonNull(s) \cup (IF HasNull(s) THEN {"nan"} ELSE {})
        IN  ~p.is_numeric =>
                /\ Len(ex) = Min(topk_cats, Cardinality(values))
                /\ \A i \in 1..Len(ex) : ex[i] \in values
                /\ \A i, j \in 1..Len(ex) : i < j =>
                       /\ ex[i] # ex[j]
                       /\ ExampleCount(s, ex[i]) >= ExampleCount(s, ex[j])
                /\ \A v \in values \ Range(ex) :
                       \A i \in 1..Len(ex) : ExampleCount(s, ex[i]) >= ExampleCount(s, v)

\* the single example of a column is its most frequent value
C15_Witness ==
    /\ Len(cols_profile) = 1
    /\ ProfiledColumn(1) = <<Cell("a;b"), Cell("2024-01-05"), Cell("2024-01-05"), Null>>
    /\ topk_cats = 1
    /\ cols_profile[1].examples = <<"2024-01-05">>

ReportKeys == {"year", "file", "loaded_ok", "rows_loaded", "structural_corruption", "columns"}

Years == {2023, 2024, 2025}

\* Column names the data dictionaries may list.
DictionaryColumns == {"MainBranch", "Age", "AISelect", "LanguageHaveWorkedWith", "Currency"}

\* str.upper() on one character, then on a string
UpperChar(c) ==
    CASE c = "a" -> "A" [] c = "b" -> "B" [] c = "c" -> "C" [] c = "d" -> "D"
      [] c = "e" -> "E" [] c = "f" -> "F" [] c = "g" -> "G" [] c = "h" -> "H"
      [] c = "i" -> "I" [] c = "j" -> "J" [] c = "k" -> "K" [] c = "l" -> "L"
      [] c = "m" -> "M" [] c = "n" -> "N" [] c = "o" -> "O" [] c = "p" -> "P"
      [] c = "q" -> "Q" [] c = "r" -> "R" [] c = "s" -> "S" [] c = "t" -> "T"
      [] c = "u" -> "U" [] c = "v" -> "V" [] c = "w" -> "W" [] c = "x" -> "X"
      [] c = "y" -> "Y" [] c = "z" -> "Z" [] OTHER -> c

RECURSIVE Upper(_)
Upper(s) ==
    IF Len(s) = 0 THEN ""
    ELSE IF Len(s) = 1 THEN UpperChar(s)
    ELSE Upper(SubSeq(s, 1, Len(s) \div 2)) \o Upper(SubSeq(s, Len(s) \div 2 + 1, Len(s)))

\* load_column_data and extract_column_info: the column names of every year
\* whose report, in the combined dictionary or in the year's own file, has
\* loaded_ok.  dicts[y] is None for a year without such a report.
LoadedColumns(dicts) ==
    [y \in {z \in DOMAIN dicts : dicts[z] # None} |-> CHOOSE S \in dicts[y] : TRUE]

\* A year without a dictionary counted as having every column.
ColumnsOf_Neutral(cby, y) == IF y \in DOMAIN cby THEN cby[y] ELSE DictionaryColumns

\* set(columns_by_year.get(year, {}).keys())
ColumnsOf(cby, y) == IF y \in DOMAIN cby THEN cby[y] ELSE {}

\* Only the first two sets intersected.
AllThree_FirstTwo(a, b, c) == a \cap b

\* cols_2023 & cols_2024 & cols_2025
AllThree(a, b, c) == (a \cap b) \cap c

\* Only the second set removed.
Only_NotSecond(a, b, c) == a \ b

\* cols_a - cols_b - cols_c
Only(a, b, c) == (a \ b) \ c

\* The two-year sets computed without removing the third year.
calculate_intersections_PairsWhole(cby) ==
    LET cols_2023 == ColumnsOf(cby, 2023)
        cols_2024 == ColumnsOf(cby, 2024)
        cols_2025 == ColumnsOf(cby, 2025)
    IN  [k \in {"all_three", "2023_2024", "2023_2025", "2024_2025", "union_all",
                "only_2023", "only_2024", "only_2025", "2023_2024_not_2025",
                "2023_2025_not_2024", "2024_2025_not_2023"} |->
            CASE k = "all_three" -> AllThree(cols_2023, cols_2024, cols_2025)
              [] k = "2023_2024" -> cols_2023 \cap cols_2024
              [] k = "2023_2025" -> cols_2023 \cap cols_2025
              [] k = "2024_2025" -> cols_2024 \cap cols_2025
              [] k = "union_all" -> (cols_2023 \cup cols_2024) \cup cols_2025
              [] k = "only_2023" -> Only(cols_2023, cols_2024, cols_2025)
              [] k = "only_2024" -> Only(cols_2024, cols_2023, cols_2025)
              [] k = "only_2025" -> Only(cols_2025, cols_2023, cols_2024)
              [] k = "2023_2024_not_2025" -> cols_2023 \cap cols_2024
              [] k = "2023_2025_not_2024" -> cols_2023 \cap cols_2025
              [] OTHER -> cols_2024 \cap cols_2025]

\* lines 61-87
calculate_intersections(cby) ==
    LET cols_2023 == ColumnsOf(cby, 2023)
        cols_2024 == ColumnsOf(cby, 2024)
        cols_2025 == ColumnsOf(cby, 2025)
    IN  [k \in {"all_three", "2023_2024", "2023_2025", "2024_2025", "union_all",
                "only_2023", "only_2024", "only_2025", "2023_2024_not_2025",
                "2023_2025_not_2024", "2024_2025_not_2023"} |->
            CASE k = "all_three" -> AllThree(cols_2023, cols_2024, cols_2025)
              [] k = "2023_2024" -> cols_2023 \cap cols_2024
              [] k = "2023_2025" -> cols_2023 \cap cols_2025
              [] k = "2024_2025" -> cols_2024 \cap cols_2025
              [] k = "union_all" -> (cols_2023 \cup cols_2024) \cup cols_2025
              [] k = "only_2023" -> Only(cols_2023, cols_2024, cols_2025)
              [] k = "only_2024" -> Only(cols_2024, cols_2023, cols_2025)
              [] k = "only_2025" -> Only(cols_2025, cols_2023, cols_2024)
              [] k = "2023_2024_not_2025" -> (cols_2023 \cap cols_2024) \ cols_2025
              [] k = "2023_2025_not_2024" -> (cols_2023 \cap cols_2025) \ cols_2024
              [] OTHER -> (cols_2024 \cap cols_2025) \ cols_2023]

\* The lists of `patterns` (lines 107-115) in the order of the dict; the
\* order of names inside a list is not modelled.
Categories == <<"core_identifiers", "demographics", "ai_usage", "productivity_metrics",
                "experience", "technology_stack", "survey_meta">>

PatternList(category, all_cols) ==
    CASE category = "core_identifiers" -> {"ResponseId", "MainBranch"}
      [] category = "demographics" ->
             {"Age", "Country", "Employment", "EdLevel", "RemoteWork", "OrgSize", "Industry"}
      [] category = "ai_usage" ->
             {col \in all_cols : \E x \in {"AI", "TOOL"} : Contains(Upper(col), x)}
      [] category = "productivity_metrics" ->
             {"ConvertedCompYearly", "CompTotal", "JobSat", "WorkExp"}
      [] category = "experience" -> {"YearsCode", "YearsCodePro", "DevType", "LearnCode"}
      [] category = "technology_stack" ->
             {col \in all_cols :
                 \E x \in {"Language", "Database", "Platform", "Framework", "Tech"} :
                     Contains(col, x)}
      [] OTHER ->
             {"SurveyLength", "SurveyEase", "SOVisitFreq", "SOAccount", "TimeSearching",
              "TimeAnswering"}

\* pattern_list[0] (line 121) of a list whose first name is known: the
\* literal lists start with these names, a computed list starts with
\* whichever name the iteration of the set gave first.
FirstOf(category, pattern_list) ==
    CASE category = "core_identifiers" -> "ResponseId"
      [] category = "demographics" -> "Age"
      [] category = "productivity_metrics" -> "ConvertedCompYearly"
      [] category = "experience" -> "YearsCode"
      [] category = "survey_meta" -> "SurveyLength"
      [] OTHER -> CHOOSE col \in pattern_list : TRUE

\* One iteration of the loop of lines 120-130: the names the category
\* receives.  For a computed list both branches give the same names, since
\* every name of the list is in all_cols, so the choice of its first name
\* does not show in the result.
Matched(category, all_cols) ==
    LET pattern_list == PatternList(category, all_cols)
    IN  IF ~Contains(FirstOf(category, pattern_list), "Have")
        THEN {col \in pattern_list : col \in all_cols}
        ELSE pattern_list

\* pattern_list[0] raises IndexError on an empty list (line 121).
CategorizeRaises(all_cols) ==
    \E k \in DOMAIN Categories : PatternList(Categories[k], all_cols) = {}

\* categorize_columns_for_analysis when it returns (lines 89-135); the lists
\* are modelled as sets of names.
categorize_columns_for_analysis(cby, inter) ==
    LET all_cols == inter["union_all"]
        categorized == UNION {Matched(Categories[k], all_cols) : k \in DOMAIN Categories}
    IN  [c \in Range(Categories) \cup {"year_specific_features"} |->
            IF c = "year_specific_features" THEN all_cols \ categorized
            ELSE Matched(c, all_cols)]

InitComprehensive ==
    /\ dictionaries \in [Years -> {None} \cup {Some(S) : S \in SUBSET DictionaryColumns}]
    /\ columns_by_year = <<>>
    /\ intersections = NoResult
    /\ categories = NoResult
    /\ written = {}
    /\ main_pc = "start"
    /\ IdleInfer /\ IdleClean /\ IdleScan /\ IdleAnalyze /\ IdleRun /\ IdleSalary
    /\ IdleSchema /\ IdleCorruption

\* main(), lines 491-500: load_column_data, the exit when no year is
\* loaded, extract_column_info.
LoadColumnData ==
    /\ main_pc = "start"
    /\ columns_by_year' = LoadedColumns(dictionaries)
    /\ main_pc' = IF DOMAIN LoadedColumns(dictionaries) = {} THEN "exit_1" ELSE "loaded"
    /\ UNCHANGED <<dictionaries, intersections, categories, written, notComprehensiveVars>>

\* main(), line 503
CalculateIntersections ==
    /\ main_pc = "loaded"
    /\ intersections' = calculate_intersections(columns_by_year)
    /\ main_pc' = "intersected"
    /\ UNCHANGED <<dictionaries, columns_by_year, categories, written, notComprehensiveVars>>

\* main(), line 506
CategorizeColumns ==
    /\ main_pc = "intersected"
    /\ IF CategorizeRaises(intersections["union_all"])
       THEN /\ main_pc' = "raised"
            /\ UNCHANGED categories
       ELSE /\ categories' = categorize_columns_for_analysis(columns_by_year, intersections)
            /\ main_pc' = "categorized"
    /\ UNCHANGED <<dictionaries, columns_by_year, intersections, written,
                   notComprehensiveVars>>

\* The dataset table of the overview formats row_counts.get(year, 'N/A') with
\* the format ':,' (lines 155-157 and again near the end of the text), which
\* raises ValueError for the string 'N/A' of a year that is not loaded.  A
\* loaded year's report has an integer rows_loaded.
OverviewRaises(cby) == \E y \in Years : y \notin DOMAIN cby

\* main(), lines 509-512: generate_comprehensive_overview (lines 137-391)
\* builds the whole text before it opens the output file.
GenerateOverview ==
    /\ main_pc = "categorized"
    /\ IF OverviewRaises(columns_by_year)
       THEN /\ main_pc' = "raised"
            /\ UNCHANGED written
       ELSE /\ written' = written \cup {"comprehensive_column_analysis.md"}
            /\ main_pc' = "overview_written"
    /\ UNCHANGED <<dictionaries, columns_by_year, intersections, categories,
                   notComprehensiveVars>>

\* main(), lines 514-527: generate_sql_ready_column_list, the summary,
\* return 0.
GenerateSqlReference ==
    /\ main_pc = "overview_written"
    /\ written' = written \cup {"sql_column_reference.sql"}
    /\ main_pc' = "exit_0"
    /\ UNCHANGED <<dictionaries, columns_by_year, intersections, categories,
                   notComprehensiveVars>>

NextComprehensive ==
    \/ LoadColumnData \/ CalculateIntersections \/ CategorizeColumns
    \/ GenerateOverview \/ GenerateSqlReference

SpecComprehensive == InitComprehensive /\ [][NextComprehensive]_vars

(***************************************************************************)
(* Properties of calculate_intersections and                               *)
(* categorize_columns_for_analysis                                         *)
(***************************************************************************)
Intersected == intersections # NoResult

LoadedYears == DOMAIN columns_by_year

\* C16 (as stated): when only some of the years have a loaded dictionary,
\* all_three is the intersection of the column sets of the years that were
\* supplied.
C16_AllThreeOverSuppliedYears ==
    Intersected =>
        intersections["all_three"] =
            {col \in intersections["union_all"] :
                \A y \in LoadedYears : col \in columns_by_year[y]}

\* C16 (amended): all_three holds the columns present in the dictionaries of
\* all of 2023, 2024 and 2025; a year without a loaded dictionary counts as
\* a year without columns, so all_three is empty as soon as one is missing.
C16_AllThreeNeedsEveryYear ==
    Intersected =>
        /\ intersections["all_three"] =
               {col \in DictionaryColumns :
                   \A y \in Years : y \in LoadedYears /\ col \in columns_by_year[y]}
        /\ LoadedYears # Years => intersections["all_three"] = {}

\* two loaded years share a column and the third year has no dictionary
C16_Witness ==
    /\ Intersected
    /\ LoadedYears = {2023, 2024}
    /\ columns_by_year[2023] \cap columns_by_year[2024] # {}
    /\ intersections["all_three"] = {}

\* The column sets with the years relabelled by p.
Relabelled(p) == [y \in {z \in Years : p[z] \in LoadedYears} |-> columns_by_year[p[y]]]

YearPermutations == {p \in [Years -> Years] : \A y, z \in Years : p[y] = p[z] => y = z}

\* C17: all_three does not depend on the order in which the three sets are
\* intersected, and it is a subset of each pairwise intersection.
C17_AllThreeOrderAndSubset ==
    Intersected =>
        /\ \A p \in YearPermutations :
               calculate_intersections(Relabelled(p))["all_three"] =
                   intersections["all_three"]
        /\ intersections["all_three"] \subseteq intersections["2023_2024"]
        /\ intersections["all_three"] \subseteq intersections["2023_2025"]
        /\ intersections["all_three"] \subseteq intersections["2024_2025"]

\* three different column sets with a common column that is not all of any
\* pairwise intersection
C17_Witness ==
    /\ Intersected
    /\ LoadedYears = Years
    /\ intersections["all_three"] # {}
    /\ intersections["all_three"] # intersections["2023_2024"]
    /\ intersections["all_three"] # intersections["2023_2025"]
    /\ intersections["all_three"] # intersections["2024_2025"]

OnlyKey(y) == CASE y = 2023 -> "only_2023" [] y = 2024 -> "only_2024" [] OTHER -> "only_2025"

\* C18: only_Y holds exactly the columns of year Y that are in neither other
\* year; the three only_* sets are pairwise disjoint and disjoint from every
\* pairwise intersection.
C18_OnlySetsExclusive ==
    Intersected =>
        /\ \A y \in Years :
               intersections[OnlyKey(y)] =
                   {col \in DictionaryColumns :
                       /\ y \in LoadedYears /\ col \in columns_by_year[y]
                       /\ \A z \in LoadedYears \ {y} : col \notin columns_by_year[z]}
        /\ \A y, z \in Years :
               y # z => intersections[OnlyKey(y)] \cap intersections[OnlyKey(z)] = {}
        /\ \A y \in Years : \A k \in {"2023_2024", "2023_2025", "2024_2025"} :
               intersections[OnlyKey(y)] \cap intersections[k] = {}

\* every year has a column of its own and shares one with another year
C18_Witness ==
    /\ Intersected
    /\ \A y \in Years : intersections[OnlyKey(y)] # {}
    /\ intersections["2023_2024"] # {}
    /\ intersections["2024_2025"] # {}

\* The semantic categories a column was put in.
CategoriesOf(col) == {c \in DOMAIN categories : col \in categories[c]}

\* C19: categorize_columns_for_analysis puts every column of the union in
\* at most one category (the first rule that matches wins), and
\* year_specific_features holds only columns no rule matched.
C19_AtMostOneCategory ==
    main_pc = "categorized" =>
        /\ \A col \in intersections["union_all"] : Cardinality(CategoriesOf(col)) <= 1
        /\ \A col \in categories["year_specific_features"] :
               \A k \in DOMAIN Categories :
                   col \notin Matched(Categories[k], intersections["union_all"])

(***************************************************************************)
(* infer_bigquery_type on columns of boolean tokens and on columns of      *)
(* dates                                                                   *)
(***************************************************************************)
\* bound: the number of cells of a column of boolean tokens
MaxTokens == 5

\* bound: the number of cells of a column of dates
MaxDates == 4

TokenStrings == {"Yes", "no", "y", "true", "1", "0", "maybe"}

DateStrings == {"2024-01-05", "1/5/2024", "2024-01-05T10:00:00", "abc"}

InitInferTokens ==
    /\ column_name \in {"amount", "ResponseId"}
    /\ series \in SeqsUpTo({Cell(v) : v \in TokenStrings}, MaxTokens)
    /\ field_info = NoResult
    /\ IdleClean /\ IdleScan /\ IdleAnalyze /\ IdleComprehensive /\ IdleRun /\ IdleSalary
    /\ IdleSchema /\ IdleCorruption

SpecInferTokens == InitInferTokens /\ [][NextInfer]_vars

InitInferDates ==
    /\ column_name \in {"amount", "CompTotal"}
    /\ series \in SeqsUpTo({Null} \cup {Cell(v) : v \in DateStrings}, MaxDates)
    /\ field_info = NoResult
    /\ IdleClean /\ IdleScan /\ IdleAnalyze /\ IdleComprehensive /\ IdleRun /\ IdleSalary
    /\ IdleSchema /\ IdleCorruption

SpecInferDates == InitInferDates /\ [][NextInfer]_vars

\* The distinct sampled values, lower-cased, are boolean tokens and at most
\* four of them.
BooleanTokens(sample) ==
    LET tokens == {Lower(sample[i]) : i \in 1..Len(sample)}
    IN  /\ tokens \subseteq {"true", "false", "yes", "no", "1", "0", "y", "n"}
        /\ Cardinality(tokens) <= 4

\* C25: infer_bigquery_type returns BOOLEAN exactly when no name override
\* applies, the sample is not empty, the sampled values do not all parse as
\* numbers and their lower-cased distinct values are at most four boolean
\* tokens; a column holding only '1' and '0' is typed INTEGER.
C25_BooleanExactly ==
    Inferred =>
        /\ field_info.type = "BOOLEAN" <=>
               /\ ~HasNameOverride(column_name)
               /\ Len(Sample) > 0
               /\ \E i \in 1..Len(Sample) : ParseNumeric(Sample[i]) = "error"
               /\ BooleanTokens(Sample)
        /\ (/\ ~HasNameOverride(column_name)
            /\ Len(Sample) > 0
            /\ \A i \in 1..Len(Sample) : Sample[i] \in {"1", "0"})
           => field_info.type = "INTEGER"

\* a column of '1', '0' and 'Yes' is BOOLEAN
C25_Witness ==
    /\ Inferred
    /\ series = <<Cell("1"), Cell("0"), Cell("Yes")>>
    /\ column_name = "amount"
    /\ field_info.type = "BOOLEAN"

\* The number of sampled values the k-th date pattern matches.
PatternMatches(sample, k) ==
    Cardinality({i \in 1..Len(sample) :
        IF k = 1 THEN MatchYMD(sample[i])
        ELSE IF k = 2 THEN MatchMDY(sample[i])
        ELSE MatchISO(sample[i])})

\* C26: for a sample without name override that is neither all numeric nor
\* made of boolean tokens, infer_bigquery_type returns TIMESTAMP exactly when
\* one single pattern of the three matches strictly more than 70% of the
\* sampled values, and STRING otherwise.
C26_TimestampExactly ==
    (/\ Inferred
     /\ ~HasNameOverride(column_name)
     /\ Len(Sample) > 0
     /\ \E i \in 1..Len(Sample) : ParseNumeric(Sample[i]) = "error"
     /\ ~BooleanTokens(Sample))
    => /\ field_info.type = "TIMESTAMP" <=>
              \E k \in 1..3 : 10 * PatternMatches(Sample, k) > 7 * Len(Sample)
       /\ field_info.type \in {"TIMESTAMP", "STRING"}

\* a sample split evenly between YYYY-MM-DD and M/D/YYYY is typed STRING
C26_Witness ==
    /\ Inferred
    /\ column_name = "amount"
    /\ series = <<Cell("2024-01-05"), Cell("1/5/2024"), Cell("2024-01-05"), Cell("1/5/2024")>>
    /\ field_info.type = "STRING"

SevenSets == {"all_three", "2023_2024_not_2025", "2023_2025_not_2024", "2024_2025_not_2023",
              "only_2023", "only_2024", "only_2025"}

\* C28: the seven sets all_three, 2023_2024_not_2025, 2023_2025_not_2024,
\* 2024_2025_not_2023, only_2023, only_2024 and only_2025 are pairwise
\* disjoint and their union is union_all: every column of the union is in
\* exactly one of them.
C28_SevenSetsPartitionUnion ==
    Intersected =>
        /\ \A j, k \in SevenSets : j # k => intersections[j] \cap intersections[k] = {}
        /\ UNION {intersections[k] : k \in SevenSets} = intersections["union_all"]
        /\ intersections["union_all"] = UNION {columns_by_year[y] : y \in LoadedYears}
        /\ \A col \in intersections["union_all"] :
               Cardinality({k \in SevenSets : col \in intersections[k]}) = 1

\* five columns spread over five of the seven sets
C28_Witness ==
    /\ Intersected
    /\ LoadedYears = Years
    /\ Cardinality({k \in SevenSets : intersections[k] # {}}) = 5
    /\ intersections["all_three"] # {}
    /\ intersections["2023_2024_not_2025"] # {}

\* C22: whenever at least one year has a loaded dictionary, whatever its
\* column names are, main() does not abort: it writes
\* comprehensive_column_analysis.md and sql_column_reference.sql and returns
\* 0; it returns 1 only when no year is loaded.
C22_MainNeverAborts ==
    /\ main_pc # "raised"
    /\ main_pc = "exit_1" => \A y \in Years : dictionaries[y] = None
    /\ main_pc = "exit_0" =>
           written = {"comprehensive_column_analysis.md", "sql_column_reference.sql"}

(***************************************************************************)
(* run(csv_2023, csv_2024, csv_2025, outdir) of the inventory pipeline and *)
(* generate_column_mapping                                                 *)
(***************************************************************************)
\* inputs (line 327)
RunYears == <<2023, 2024, 2025>>

\* The frames analyze_dataset loads in a run: a header without rows and two
\* rows of one column.
RunFrames == {<<[name |-> "ResponseId", values |-> v]>> :
                 v \in {<<>>, <<Cell("1"), Cell("1.0")>>}}

\* The encoding a file is loaded with: the one the scan reported, or the
\* first fallback when the scan reported none (lines 128-166).
LoadedEncoding(st) ==
    IF st.encoding_used \in EncodingNames THEN st.encoding_used ELSE Encodings[1]

\* What analyze_dataset returns for a file (lines 121-235) with the default
\* limits of run(): the failure report or the report of a loaded frame, for
\* each result of the structural scan.
AnalyzeReports(yr, fp) ==
    {FailureReport(yr, fp, st, st.encoding_used) : st \in ScanResults}
    \cup
    {Report(yr, fp, st, frame,
            [k \in 1..Len(frame) |->
                ColumnProfile(k - 1, frame[k], 10000, 10,
                              CHOOSE vc \in ValueCounts(frame[k].values) : TRUE)],
            LoadedEncoding(st)) : st \in ScanResults, frame \in RunFrames}

\* The entry without its year.
NoPathEntry_NoYear(yr) == [loaded_ok |-> FALSE, error |-> "No file path provided"]

\* line 334
NoPathEntry(yr) == [year |-> yr, loaded_ok |-> FALSE, error |-> "No file path provided"]

\* line 340
MissingFileEntry(yr, fp) ==
    [year |-> yr, file |-> fp, loaded_ok |-> FALSE, error |-> "File does not exist: " \o fp]

\* line 359
ExceptionEntry(yr, fp) == [year |-> yr, file |-> fp, loaded_ok |-> FALSE, error |-> "error"]

\* r.get(key, default)
Get(r, key, default) == IF key \in DOMAIN r THEN r[key] ELSE default

\* lines 389-396, the texts without their symbols
Verdict(r) ==
    IF ~Get(r, "loaded_ok", FALSE) THEN "Failed to load"
    ELSE IF Get(r, "structural_corruption", FALSE) THEN "Structural Corruption"
    ELSE IF Get(r, "estimated_rows_skipped", 0) > 0 THEN "Issues Detected"
    ELSE "Clean"

\* generate_column_mapping, lines 252-264, the texts without their symbols
Status(r) ==
    IF ~Get(r, "loaded_ok", FALSE)
    THEN "Not loaded (" \o Get(r, "error", "unknown error") \o ")"
    ELSE IF Get(r, "structural_corruption", FALSE) THEN "Structural corruption detected"
    ELSE IF Get(r, "estimated_rows_skipped", 0) > 0 THEN "Some rows skipped by parser"
    ELSE "Clean"

PerYearJson(yr) ==
    CASE yr = 2023 -> "data_dictionary_2023.json"
      [] yr = 2024 -> "data_dictionary_2024.json"
      [] OTHER     -> "data_dictionary_2025.json"

CsvPath(yr) ==
    CASE yr = 2023 -> "stackoverflow_2023.csv"
      [] yr = 2024 -> "stackoverflow_2024.csv"
      [] OTHER     -> "stackoverflow_2025.csv"

InitRun ==
    /\ inputs \in [1..3 -> BOOLEAN]
    /\ results = <<>>
    /\ run_written = {}
    /\ status_by_year = <<>>
    /\ verdicts = <<>>
    /\ run_pc = "analyzing"
    /\ IdleInfer /\ IdleClean /\ IdleScan /\ IdleAnalyze /\ IdleComprehensive /\ IdleSalary
    /\ IdleSchema /\ IdleCorruption

\* One iteration of `for fp, yr in inputs` (lines 331-360).  inputs[k] tells
\* whether a path was given for the k-th year; whether the file exists and
\* what analyze_dataset does with it is the environment's choice.
ProcessYear ==
    /\ run_pc = "analyzing"
    /\ Len(results) < Len(RunYears)
    /\ LET k == Len(results) + 1
           yr == RunYears[k]
           fp == CsvPath(yr)
       IN  IF ~inputs[k]
           THEN results' = Append(results, NoPathEntry(yr))
           ELSE \E exists \in BOOLEAN :
                    IF ~exists
                    THEN results' = Append(results, MissingFileEntry(yr, fp))
                    ELSE \E rep \in AnalyzeReports(yr, fp) \cup {ExceptionEntry(yr, fp)} :
                             results' = Append(results, rep)
    /\ UNCHANGED <<inputs, run_written, status_by_year, verdicts, run_pc, notRunVars>>

\* lines 364-374: the combined dictionary, then one file for every entry
\* that has a year
WriteJson ==
    /\ run_pc = "analyzing"
    /\ Len(results) = Len(RunYears)
    /\ run_written' = run_written \cup {"data_dictionary.json"}
                      \cup {PerYearJson(results[k].year) :
                               k \in {j \in 1..Len(results) : Get(results[j], "year", 0) # 0}}
    /\ run_pc' = "json_written"
    /\ UNCHANGED <<inputs, results, status_by_year, verdicts, notRunVars>>

\* lines 376-383: generate_column_mapping and generate_relevant_columns_minimal
WriteDocs ==
    /\ run_pc = "json_written"
    /\ status_by_year' =
           [y \in {Get(results[k], "year", 0) : k \in 1..Len(results)} \ {0} |->
               Status(results[CHOOSE k \in 1..Len(results) :
                          /\ Get(results[k], "year", 0) = y
                          /\ \A j \in 1..Len(results) :
                                 Get(results[j], "year", 0) = y => j <= k])]
    /\ run_written' = run_written \cup {"column_mapping.md", "relevant_columns.md"}
    /\ run_pc' = "docs_written"
    /\ UNCHANGED <<inputs, results, verdicts, notRunVars>>

\* lines 385-409: the verdicts, return results
PrintVerdicts ==
    /\ run_pc = "docs_written"
    /\ verdicts' = [k \in 1..Len(results) |->
                       <<Get(results[k], "year", 0), Verdict(results[k])>>]
    /\ run_pc' = "returned"
    /\ UNCHANGED <<inputs, results, run_written, status_by_year, notRunVars>>

NextRun == ProcessYear \/ WriteJson \/ WriteDocs \/ PrintVerdicts

SpecRun == InitRun /\ [][NextRun]_vars

(***************************************************************************)
(* Claims about run() of the inventory pipeline                            *)
(***************************************************************************)
\* The entry of the k-th year is a failure entry.
FailedEntry(k) == ~Get(results[k], "loaded_ok", FALSE)

\* C21: run() isolates faults per file: once the loop has ended, results has
\* exactly one entry per year in the order 2023, 2024, 2025, an entry that is
\* not a loaded report has loaded_ok false and an error, a year without a
\* path still leaves the other years to be analysed, and when run() returns
\* the combined JSON, the three per-year JSONs and both Markdown files have
\* been written.
C21_FaultsIsolatedPerFile ==
    /\ Len(results) <= Len(RunYears)
    /\ \A k \in 1..Len(results) :
           /\ "year" \in DOMAIN results[k] /\ results[k].year = RunYears[k]
           /\ "loaded_ok" \in DOMAIN results[k]
           /\ FailedEntry(k) => "error" \in DOMAIN results[k]
           /\ ~inputs[k] => FailedEntry(k)
    /\ run_pc \in {"json_written", "docs_written", "returned"} =>
           /\ Len(results) = Len(RunYears)
           /\ {"data_dictionary.json"} \cup {PerYearJson(RunYears[k]) : k \in 1..3}
                  \subseteq run_written
    /\ run_pc = "returned" =>
           {"column_mapping.md", "relevant_columns.md"} \subseteq run_written

\* A run that returned with a failed first year and a loaded last year.
C21_Witness ==
    /\ run_pc = "returned"
    /\ FailedEntry(1) /\ ~inputs[2] /\ ~FailedEntry(3)
    /\ results[1].error = "error"

\* C30: a year is reported Clean, by the verdict and by the column mapping,
\* only if its file loaded, its structural scan completed without error and
\* found no anomalous field count, and no rows were estimated as skipped.
C30_CleanOnlyIfScanSucceeded ==
    \A k \in 1..Len(results) :
        LET r == results[k]
            clean == /\ r.loaded_ok
                     /\ r.structural_scan.error = None
                     /\ r.structural_scan.anomalous_field_counts = <<>>
                     /\ r.estimated_rows_skipped = 0
        IN  /\ (verdicts # <<>> /\ verdicts[k][2] = "Clean") => clean
            /\ (status_by_year # <<>> /\ status_by_year[r.year] = "Clean") => clean

(***************************************************************************)
(* clean_csv_for_bigquery: the salary fields (lines 89-103), the text      *)
(* cleaning (lines 105-115) and the rows written (lines 122-135)           *)
(***************************************************************************)
MaxSalaryRows == 3

\* The columns whose cells are followed: the two salary fields and one other.
SalaryColumns == {"CompTotal", "ConvertedCompYearly", "Currency"}

\* The cells pd.read_csv(dtype=str) delivers: NaN for an empty field, text
\* otherwise.
SalaryStrings == {"50000", "-5", "2.5", "1000000000", "1000000000.0",
                  "1000000001", "1000000000.5", "99999999999", "inf", "-inf", "abc"}

SalaryCells == {Null} \cup {Cell(v) : v \in SalaryStrings}

\* 1e9 as NumValue writes it
Ceiling == [neg |-> FALSE, int |-> "1000000000", frac |-> ""]

\* The comparison is strict.
WithinCeiling_Strict(x) ==
    \/ x.neg
    \/ x.int # "inf" /\ Len(x.int) < Len(Ceiling.int)

\* numeric_series <= 1e9 (line 96) on one number
WithinCeiling(x) ==
    \/ x.neg
    \/ x.int # "inf" /\ Len(x.int) < Len(Ceiling.int)
    \/ x = Ceiling

\* numeric_series.where(numeric_series <= 1e9) on one cell of
\* pd.to_numeric(df[col], errors='coerce')
Masked(cell) ==
    LET x == ToNumeric(cell)
    IN  IF x = None THEN None
        ELSE IF WithinCeiling(CHOOSE n \in x : TRUE) THEN x ELSE None

\* The series stays int64 when every cell is an integer string and none is
\* masked; otherwise it is float64.
IsInt64(s) ==
    \A i \in 1..Len(s) :
        /\ ~s[i].isna /\ ParseNumeric(s[i].str) = "int"
        /\ Masked(s[i]) # None

\* str() of a float and of an int
FloatStr(x) ==
    IF x.int = "inf" THEN (IF x.neg THEN "-inf" ELSE "inf")
    ELSE (IF x.neg THEN "-" ELSE "") \o (IF x.int = "" THEN "0" ELSE x.int)
            \o "." \o (IF x.frac = "" THEN "0" ELSE x.frac)

IntStr(x) == (IF x.neg THEN "-" ELSE "") \o (IF x.int = "" THEN "0" ELSE x.int)

\* numeric_series.astype(str).replace('nan', '') (line 99)
SalaryText(s) ==
    [i \in 1..Len(s) |->
        LET x == Masked(s[i])
        IN  IF x = None THEN Cell("")
            ELSE IF IsInt64(s) THEN Cell(IntStr(CHOOSE n \in x : TRUE))
            ELSE Cell(FloatStr(CHOOSE n \in x : TRUE))]

\* The replacements of lines 110-113 on a text without NUL characters.
RECURSIVE ReplaceBreaks(_)
ReplaceBreaks(v) ==
    IF v = "" THEN ""
    ELSE IF Len(v) >= 2 /\ SubSeq(v, 1, 2) = "\r\n" THEN " " \o ReplaceBreaks(SubSeq(v, 3, Len(v)))
    ELSE IF Ch(v, 1) \in {"\r", "\n"} THEN " " \o ReplaceBreaks(SubSeq(v, 2, Len(v)))
    ELSE IF Ch(v, 1) = "\"" THEN "'" \o ReplaceBreaks(SubSeq(v, 2, Len(v)))
    ELSE Ch(v, 1) \o ReplaceBreaks(SubSeq(v, 2, Len(v)))

\* lines 108-114 on one cell: astype(str), the replacements, the null words
TextCell(cell) ==
    LET v == ReplaceBreaks(Str(cell))
    IN  IF v \in {"nan", "NaN", "NULL", "null"} THEN Cell("") ELSE Cell(v)

\* line 135 on one cell
WrittenField(cell) == IF cell.isna THEN "" ELSE cell.str

InitSalary ==
    /\ salary_col \in SalaryColumns
    /\ salary_input \in SeqsUpTo(SalaryCells, MaxSalaryRows)
    /\ salary_values = salary_input
    /\ salary_written = <<>>
    /\ salary_pc = "loaded"
    /\ IdleInfer /\ IdleClean /\ IdleScan /\ IdleAnalyze /\ IdleComprehensive /\ IdleRun
    /\ IdleSchema /\ IdleCorruption

\* step 3 (lines 89-103)
CleanSalaryFields ==
    /\ salary_pc = "loaded"
    /\ salary_values' = IF salary_col \in {"CompTotal", "ConvertedCompYearly"}
                        THEN SalaryText(salary_values)
                        ELSE salary_values
    /\ salary_pc' = "salary_cleaned"
    /\ UNCHANGED <<salary_col, salary_input, salary_written, notSalaryVars>>

\* step 4 (lines 105-115)
CleanText ==
    /\ salary_pc = "salary_cleaned"
    /\ salary_values' = [i \in 1..Len(salary_values) |-> TextCell(salary_values[i])]
    /\ salary_pc' = "text_cleaned"
    /\ UNCHANGED <<salary_col, salary_input, salary_written, notSalaryVars>>

\* step 6 (lines 122-135)
WriteRows ==
    /\ salary_pc = "text_cleaned"
    /\ salary_written' = [i \in 1..Len(salary_values) |-> WrittenField(salary_values[i])]
    /\ salary_pc' = "written"
    /\ UNCHANGED <<salary_col, salary_input, salary_values, notSalaryVars>>

NextSalary == CleanSalaryFields \/ CleanText \/ WriteRows

SpecSalary == InitSalary /\ [][NextSalary]_vars

\* The number x is greater than 1e9: it is positive and it is infinite, or
\* has more integer digits than 1e9, or as many without being 1e9 itself.
AboveCeiling(x) ==
    /\ ~x.neg
    /\ \/ x.int = "inf"
       \/ Len(x.int) > Len(Ceiling.int)
       \/ Len(x.int) = Len(Ceiling.int) /\ x # Ceiling

\* C24: after clean_csv_for_bigquery no cell of CompTotal and
\* ConvertedCompYearly holds a number above 1e9: a value above the ceiling
\* and a non-numeric value are written as the empty field, a numeric value of
\* at most 1e9 (exactly 1e9 and the negatives included) keeps its value.
C24_SalaryCeiling ==
    (salary_pc = "written" /\ salary_col \in {"CompTotal", "ConvertedCompYearly"}) =>
        \A i \in 1..Len(salary_input) :
            LET before == ToNumeric(salary_input[i])
                after == ToNumeric(Cell(salary_written[i]))
            IN  /\ after # None => ~AboveCeiling(CHOOSE n \in after : TRUE)
                /\ IF before # None /\ ~AboveCeiling(CHOOSE n \in before : TRUE)
                   THEN after = before
                   ELSE salary_written[i] = ""

\* A written salary column with a kept 1e9, a kept negative, a removed
\* outlier.
C24_Witness ==
    /\ salary_pc = "written" /\ salary_col = "CompTotal"
    /\ Len(salary_input) = 3
    /\ salary_input[1] = Cell("1000000000") /\ salary_written[1] = "1000000000.0"
    /\ salary_input[2] = Cell("-5") /\ salary_written[2] = "-5.0"
    /\ salary_input[3] = Cell("1000000001") /\ salary_written[3] = ""

(***************************************************************************)
(* generate_bigquery_schema on the dataframe clean_csv_for_bigquery        *)
(* returns, and load_original_columns on the legacy schema file            *)
(***************************************************************************)
MaxSchemaCols == 2

\* Raw header names: one already clean, renamed ones, one that ends with a
\* parenthesis, the names with a type override, and one that is cleaned to
\* the name of a metadata column.
SchemaRawNames == {"Age", "Comp Total", "Salary (USD)", "CompTotal",
                   "JobSatPoints_1", "ResponseId", "survey year"}

\* The cells of one column of the two rows read.
SchemaSeries == {<<Cell("1"), Cell("2")>>, <<Cell("x"), Null>>,
                 <<Cell("2.5"), Cell("1")>>, <<Cell("yes"), Cell("no")>>,
                 <<Cell("2024-01-05"), Cell("2024-01-06")>>, <<Null, Null>>}

\* lines 57-77 over the whole header
RECURSIVE CleanedColumns(_)
CleanedColumns(cols) ==
    IF cols = <<>> THEN <<>>
    ELSE LET before == CleanedColumns(SubSeq(cols, 1, Len(cols) - 1))
             col == cols[Len(cols)]
             original_clean == CleanName(col)
         IN  DictSet(before, col,
                     Disambiguate(original_clean, original_clean, 1, Values(before)))

\* df[name] = value: a column of that name is overwritten where it stands,
\* a new one is appended (lines 117-120)
SetColumn(frame, name, value) ==
    IF \E k \in 1..Len(frame) : frame[k].name = name
    THEN [k \in 1..Len(frame) |->
             IF frame[k].name = name
             THEN [name |-> name, values |-> [i \in 1..Len(frame[k].values) |-> Cell(value)]]
             ELSE frame[k]]
    ELSE Append(frame, [name |-> name,
                        values |-> [i \in 1..(IF frame = <<>> THEN 0 ELSE Len(frame[1].values))
                                       |-> Cell(value)]])

\* steps 1, 3, 4 and 5 of clean_csv_for_bigquery on the frame read; the cells
\* of survey_year are held as the text astype(str) gives them
CleanedFrame(frame, mapping, yr, enc) ==
    LET renamed == [k \in 1..Len(frame) |->
                       [name |-> mapping[k].clean, values |-> frame[k].values]]
        salary == [k \in 1..Len(renamed) |->
                      IF renamed[k].name \in {"CompTotal", "ConvertedCompYearly"}
                      THEN [renamed[k] EXCEPT !.values = SalaryText(@)]
                      ELSE renamed[k]]
        text == [k \in 1..Len(salary) |->
                    [salary[k] EXCEPT !.values = [i \in 1..Len(@) |-> TextCell(@[i])]]]
    IN  SetColumn(SetColumn(SetColumn(text, "survey_year", Itoa(yr)),
                            "processing_timestamp", "2024-06-01T10:00:00.123456"),
                  "source_encoding", enc)

\* lines 270-275: the first key of column_mapping whose value is col
OriginalName(mapping, col) ==
    LET hits == {k \in 1..Len(mapping) : mapping[k].clean = col}
    IN  IF hits = {} THEN None
        ELSE Some(mapping[CHOOSE k \in hits : \A j \in hits : k <= j].col)

\* lines 267-280 for one column
SchemaField(column, mapping) ==
    LET field == infer_bigquery_type(column.values, column.name)
        original_name == OriginalName(mapping, column.name)
    IN  IF original_name # None /\ original_name # Some("") /\ original_name # Some(column.name)
        THEN [field EXCEPT !.description =
                 @ \o " (originally: " \o (CHOOSE o \in original_name : TRUE) \o ")"]
        ELSE field

\* The positions at which sep occurs in v.
Occurs(v, sep) ==
    {i \in 1..(Len(v) - Len(sep) + 1) : SubSeq(v, i, i + Len(sep) - 1) = sep}

\* v.split(sep)[-1]
LastPart(v, sep) ==
    IF Occurs(v, sep) = {} THEN v
    ELSE LET last == CHOOSE i \in Occurs(v, sep) : \A j \in Occurs(v, sep) : j <= i
         IN  SubSeq(v, last + Len(sep), Len(v))

\* v.rstrip(c)
RStrip(v, c) ==
    LET kept == {i \in 1..Len(v) : Ch(v, i) # c}
    IN  IF kept = {} THEN ""
        ELSE SubSeq(v, 1, CHOOSE i \in kept : \A j \in kept : j <= i)

\* load_original_columns, lines 42-44, for one field
OriginalColumn(field) ==
    IF Occurs(field.description, "(originally: ") # {}
    THEN RStrip(LastPart(field.description, "(originally: "), ")")
    ELSE field.name

InitSchema ==
    /\ schema_raw \in {q \in SeqsUpTo([name : SchemaRawNames, values : SchemaSeries],
                                      MaxSchemaCols) :
                          \A i, j \in 1..Len(q) : i # j => q[i].name # q[j].name}
    /\ column_mapping = <<>>
    /\ schema_df = <<>>
    /\ schema_fields = NoResult
    /\ legacy_schema = NoResult
    /\ original_columns = NoResult
    /\ schema_pc = "read"
    /\ IdleInfer /\ IdleClean /\ IdleScan /\ IdleAnalyze /\ IdleComprehensive /\ IdleRun
    /\ IdleSalary /\ IdleCorruption

\* clean_csv_for_bigquery (lines 20-152): 'column_mapping' and 'dataframe' of
\* its result
CleanCsv ==
    /\ schema_pc = "read"
    /\ LET mapping == CleanedColumns([k \in 1..Len(schema_raw) |-> schema_raw[k].name])
       IN  /\ column_mapping' = mapping
           /\ \E enc \in {Encodings[1], Encodings[3]} :
                  schema_df' = CleanedFrame(schema_raw, mapping, 2024, enc)
    /\ schema_pc' = "cleaned"
    /\ UNCHANGED <<schema_raw, schema_fields, legacy_schema, original_columns, notSchemaVars>>

\* generate_bigquery_schema (lines 259-308): both files
GenerateSchema ==
    /\ schema_pc = "cleaned"
    /\ LET fields == [k \in 1..Len(schema_df) |-> SchemaField(schema_df[k], column_mapping)]
       IN  /\ schema_fields' = fields
           /\ legacy_schema' = [schema |-> [fields |-> fields],
                                metadata |-> [year |-> 2024, total_fields |-> Len(fields)]]
    /\ schema_pc' = "schema_written"
    /\ UNCHANGED <<schema_raw, column_mapping, schema_df, original_columns, notSchemaVars>>

\* load_original_columns (lines 35-45) on the legacy file
LoadOriginalColumns ==
    /\ schema_pc = "schema_written"
    /\ original_columns' =
           [k \in 1..Len(legacy_schema.schema.fields) |->
               OriginalColumn(legacy_schema.schema.fields[k])]
    /\ schema_pc' = "originals_loaded"
    /\ UNCHANGED <<schema_raw, column_mapping, schema_df, schema_fields, legacy_schema,
                   notSchemaVars>>

NextSchema == CleanCsv \/ GenerateSchema \/ LoadOriginalColumns

SpecSchema == InitSchema /\ [][NextSchema]_vars

\* C23: the schema file is an array with exactly one {name, type, mode,
\* description} record per column of the cleaned dataframe, in column order,
\* the metadata columns included; every record has mode NULLABLE and a type
\* among INTEGER, FLOAT, BOOLEAN, TIMESTAMP, STRING; schema.fields of the
\* legacy file is the same list.
C23_SchemaOneRecordPerColumn ==
    schema_fields # NoResult =>
        /\ Len(schema_fields) = Len(schema_df)
        /\ \A k \in 1..Len(schema_df) :
               /\ DOMAIN schema_fields[k] = {"name", "type", "mode", "description"}
               /\ schema_fields[k].name = schema_df[k].name
               /\ schema_fields[k].mode = "NULLABLE"
               /\ schema_fields[k].type \in {"INTEGER", "FLOAT", "BOOLEAN", "TIMESTAMP", "STRING"}
        /\ {"survey_year", "processing_timestamp", "source_encoding"}
               \subseteq {schema_fields[k].name : k \in 1..Len(schema_fields)}
        /\ legacy_schema.schema.fields = schema_fields

\* A schema of five records: two data columns, one of them renamed, and the
\* three metadata columns, with the types of text, tokens, integers and dates.
C23_Witness ==
    /\ schema_pc = "schema_written"
    /\ Len(schema_fields) = 5
    /\ schema_fields[1].name = "Comp_Total" /\ schema_fields[1].type = "STRING"
    /\ schema_fields[2].name = "Age" /\ schema_fields[2].type = "BOOLEAN"
    /\ schema_fields[3].type = "INTEGER"
    /\ schema_fields[4].type = "TIMESTAMP"
    /\ schema_fields[5].type = "STRING"

\* The column at position k of the cleaned dataframe was renamed from raw.
RenamedFrom(k, raw) ==
    /\ OriginalName(column_mapping, schema_df[k].name) = Some(raw)
    /\ raw # schema_df[k].name

\* C29: for every renamed column the description written by
\* generate_bigquery_schema ends with '(originally: <raw name>)' and
\* load_original_columns recovers exactly that raw name from the legacy file;
\* for a column that was not renamed it returns the column's name.
C29_OriginalNamesRoundTrip ==
    schema_pc = "originals_loaded" =>
        \A k \in 1..Len(schema_df) :
            IF \E raw \in SchemaRawNames : RenamedFrom(k, raw)
            THEN LET raw == CHOOSE r \in SchemaRawNames : RenamedFrom(k, r)
                     tail == "(originally: " \o raw \o ")"
                     d == schema_fields[k].description
                 IN  /\ Len(d) >= Len(tail)
                     /\ SubSeq(d, Len(d) - Len(tail) + 1, Len(d)) = tail
                     /\ original_columns[k] = raw
            ELSE original_columns[k] = schema_df[k].name

(***************************************************************************)
(* run_holistic_corruption_check(file_path, schema): the checks of one     *)
(* column of the schema                                                    *)
(***************************************************************************)
MaxCheckedRows == 3

\* Expected types of the schema; the z-score test of 'int' columns is not
\* modelled.
ExpectedTypes == {"str", "float"}

CheckedStrings == {"Shipped", "shipped", "Pending", "USA", "usa", "a@b", "75"}

CheckedCells == {Null} \cup {Cell(v) : v \in CheckedStrings}

\* series.dropna().unique(): the values in the order of their first
\* appearance
RECURSIVE Unique(_)
Unique(s) ==
    IF s = <<>> THEN <<>>
    ELSE LET before == Unique(SubSeq(s, 1, Len(s) - 1))
             last == s[Len(s)]
         IN  IF last.isna \/ \E i \in 1..Len(before) : before[i] = last.str
             THEN before
             ELSE Append(before, last.str)

\* np.char.lower(unique_values): an array of the same shape
CharLower(u) == [i \in 1..Len(u) |-> Lower(u[i])]

\* [^a-zA-Z0-9\s.,\-\_] matches a character of v (line 106)
HasUnusualChar(v) ==
    \E i \in 1..Len(v) :
        Ch(v, i) \notin Digits \cup LowerLetters \cup UpperLetters
                          \cup {" ", "\t", "\n", "\r", ".", ",", "-", "_"}

\* The issue types the checks of one column add (lines 76-113), given
\* whether np.char.lower works on the array pandas returns.
ColumnIssues(s, expected_type) ==
    LET null_count == NullCount(s)
        missing == IF null_count > 0 THEN {"Missing Values"} ELSE {}
        corrupted_values_count ==
            Cardinality({i \in 1..Len(s) : ToNumeric(s[i]) = None}) - null_count
        unique_values == Unique(s)
    IN  missing \cup
        (IF expected_type \in {"int", "float"}
         THEN (IF corrupted_values_count > 0 THEN {"Data Type Corruption"} ELSE {})
         ELSE (IF \E i \in 1..Len(s) : ~s[i].isna /\ HasUnusualChar(s[i].str)
               THEN {"Gibberish/Bad Characters"} ELSE {})
              \cup
              (IF Len(unique_values) > 0 /\ Len(CharLower(unique_values)) # Len(unique_values)
               THEN {"Inconsistent Categorical Data"} ELSE {}))

InitCorruption ==
    /\ check_type \in ExpectedTypes
    /\ check_series \in SeqsUpTo(CheckedCells, MaxCheckedRows)
    /\ issues = {}
    /\ check_pc = "read"
    /\ IdleInfer /\ IdleClean /\ IdleScan /\ IdleAnalyze /\ IdleComprehensive /\ IdleRun
    /\ IdleSalary /\ IdleSchema

\* One iteration of `for col_name, expected_type in schema.items()` (lines
\* 69-113).  np.char.lower is handed the object array of unique(): it
\* lowers every element, or raises TypeError on builds where it refuses an
\* array that is not of a string dtype.
CheckColumn ==
    /\ check_pc = "read"
    /\ \E lower_raises \in BOOLEAN :
           IF lower_raises /\ check_type = "str" /\ Unique(check_series) # <<>>
           THEN /\ issues' = ColumnIssues(check_series, check_type)
                                \ {"Inconsistent Categorical Data"}
                /\ check_pc' = "raised"
           ELSE /\ issues' = ColumnIssues(check_series, check_type)
                /\ check_pc' = "checked"
    /\ UNCHANGED <<check_type, check_series, notCorruptionVars>>

\* The summary (lines 115-127)
PrintSummary ==
    /\ check_pc = "checked"
    /\ check_pc' = "reported"
    /\ UNCHANGED <<check_type, check_series, issues, notCorruptionVars>>

NextCorruption == CheckColumn \/ PrintSummary

SpecCorruption == InitCorruption /\ [][NextCorruption]_vars

\* Two distinct non-null values of the column differ only in letter case.
CasePair ==
    \E i, j \in 1..Len(check_series) :
        /\ ~check_series[i].isna /\ ~check_series[j].isna
        /\ check_series[i].str # check_series[j].str
        /\ Lower(check_series[i].str) = Lower(check_series[j].str)

\* C27: run_holistic_corruption_check reports an 'Inconsistent Categorical
\* Data' issue for every column of expected type 'str' that holds two
\* distinct non-null values differing only in letter case, and none for a
\* column without such a pair.
C27_CasePairReported ==
    (check_pc = "reported" /\ check_type = "str") =>
        ("Inconsistent Categorical Data" \in issues <=> CasePair)

====
